---------------------------- MODULE Spec2Model ----------------------------
(***************************************************************************)
(* Return lifecycle of the e-commerce returns backend: creation with the   *)
(* idempotency guard, eligibility and fraud rules (returns/views.py), the   *)
(* logistics and refund webhooks (returns/webhooks.py) and the admin bulk   *)
(* actions (returns/admin.py), over the tables of returns/models.py.        *)
(*                                                                         *)
(* Spec     : every request handler runs to completion before the next one *)
(*            starts (requests handled one at a time).                     *)
(* SpecConc : handlers of concurrent requests interleave at their database *)
(*            statements (no transaction, no row lock in the source).      *)
(***************************************************************************)
EXTENDS Integers, Sequences, FiniteSets, TLC

(***************************************************************************)
(* Bounds of the model.                                                    *)
(***************************************************************************)
\* rows of the return_requests table
MaxReturns == 2
\* rows of the return_status_history table
MaxHistory == 4

(***************************************************************************)
(* settings.RETURN_POLICY                                                  *)
(***************************************************************************)
DEFAULT_RETURN_WINDOW_DAYS == 7
ELECTRONICS_RETURN_WINDOW_DAYS == 10
FASHION_RETURN_WINDOW_DAYS == 30
MAX_RETURNS_PER_MONTH == 10
HIGH_VALUE_THRESHOLD == 10000

(***************************************************************************)
(* Time is counted in minutes; timedelta(days=d), timedelta(hours=h).      *)
(***************************************************************************)
Days(d) == d * 24 * 60
Hours(h) == h * 60

\* a nullable column: NULL is <<>>, a value v is <<v>>
Null == << >>
Some(v) == << v >>

\* Python None for the optional idempotency_key of a request
NoKey == "None"

\* the instant the model starts at, and the instants the clock may jump to
T0 == Days(60)
Instants == { T0, T0 + Days(9) }

(***************************************************************************)
(* The orders table (read-only here), after the fixture of returns/tests.py *)
(* with the totals put next to the threshold: a fashion order delivered a  *)
(* week ago, below the threshold; an electronics order delivered two days  *)
(* ago with a total equal to the threshold; an order only shipped; a book  *)
(* delivered 60 days ago; an order delivered half an hour ago; and a       *)
(* delivered order without delivery date.                                  *)
(***************************************************************************)
Orders ==
  << [status |-> "delivered", delivered_at |-> Some(T0 - Days(7)),
      category |-> "fashion", total_amount |-> 9999, customer_id |-> 1],
     [status |-> "delivered", delivered_at |-> Some(T0 - Days(2)),
      category |-> "electronics", total_amount |-> 10000, customer_id |-> 1],
     [status |-> "shipped", delivered_at |-> Null,
      category |-> "electronics", total_amount |-> 19999, customer_id |-> 2],
     [status |-> "delivered", delivered_at |-> Some(T0 - Days(60)),
      category |-> "books", total_amount |-> 500, customer_id |-> 1],
     [status |-> "delivered", delivered_at |-> Some(T0 - 30),
      category |-> "home", total_amount |-> 500, customer_id |-> 2],
     [status |-> "delivered", delivered_at |-> Null,
      category |-> "beauty", total_amount |-> 12000, customer_id |-> 2] >>

OrderIds == DOMAIN Orders

\* ReturnRequest.STATUS_CHOICES
Statuses ==
  { "pending", "approved", "rejected", "pickup_scheduled", "picked_up",
    "warehouse_received", "quality_check", "refund_initiated",
    "refund_completed", "cancelled", "closed" }

\* webhooks.WEBHOOK_SECRET
WEBHOOK_SECRET == "webhook-secret-token-123"

VARIABLES
  returns,   \* table return_requests: row i has primary key and return number i
  history,   \* table return_status_history: history[i] are the rows of return i, oldest first
  flags,     \* table fraud_flags: flags[i] are the rows of return i, oldest first
  now,       \* timezone.now()
  resp,      \* the response of the request handled last
  procs,     \* the requests in flight (SpecConc only)
  evaluation \* the call of a helper under study: its arguments and, once made, its result

vars == << returns, history, flags, now, resp, procs, evaluation >>

(***************************************************************************)
(* Queries.                                                                *)
(***************************************************************************)
ReturnIds == DOMAIN returns

\* ReturnStatusHistory.objects.filter(return_request=r).order_by('created_at')
HistoryOf(r) == history[r]

\* FraudFlag rows of return r
FlagsOf(r) == flags[r]

\* ReturnRequest.objects.filter(idempotency_key=key).first()
FindByKeyIn(rets, key) ==
  LET hit == { i \in DOMAIN rets : rets[i].idempotency_key = key }
  IN  IF hit = {} THEN 0 ELSE CHOOSE i \in hit : \A j \in hit : j <= i

\* the characters str.isdigit() takes in an ASCII pincode
Digits == { "0", "1", "2", "3", "4", "5", "6", "7", "8", "9" }

\* (mutant) only "value.isdigit()" is tested, not the length
PincodeValidDigitsOnly(pin) ==
  /\ Len(pin) # 0
  /\ \A i \in DOMAIN pin : pin[i] \in Digits

\* value.isdigit() and len(value) == 6
PincodeValid(pin) ==
  /\ Len(pin) # 0
  /\ \A i \in DOMAIN pin : pin[i] \in Digits
  /\ Len(pin) = 6

\* CreateReturnRequestSerializer.is_valid(): validate_order_id, validate_pickup_pincode
CreateValid(oid, pin) ==
  /\ oid \in OrderIds
  /\ Orders[oid].status = "delivered"
  /\ PincodeValid(pin)


(***************************************************************************)
(* Eligibility: views._check_eligibility                                   *)
(***************************************************************************)
\* (mutant) the windows of electronics and fashion change places
WindowDaysSwapped(category) ==
  IF category = "electronics" THEN FASHION_RETURN_WINDOW_DAYS
  ELSE IF category = "fashion" THEN ELECTRONICS_RETURN_WINDOW_DAYS
  ELSE DEFAULT_RETURN_WINDOW_DAYS

\* category_windows.get(order.category, DEFAULT_RETURN_WINDOW_DAYS)
WindowDays(category) ==
  IF category = "electronics" THEN ELECTRONICS_RETURN_WINDOW_DAYS
  ELSE IF category = "fashion" THEN FASHION_RETURN_WINDOW_DAYS
  ELSE DEFAULT_RETURN_WINDOW_DAYS

\* (mutant) a cancelled return still counts as active
ActiveStatusesWithCancelled ==
  { "pending", "approved", "pickup_scheduled", "picked_up",
    "warehouse_received", "quality_check", "refund_initiated", "cancelled" }

\* active_statuses of _check_eligibility
ActiveStatuses ==
  { "pending", "approved", "pickup_scheduled", "picked_up",
    "warehouse_received", "quality_check", "refund_initiated" }

\* deadline = order.delivered_at + timedelta(days=return_window_days)
Deadline(order) == order.delivered_at[1] + Days(WindowDays(order.category))

\* ReturnRequest.objects.filter(order=order, status__in=active_statuses).exists()
HasActiveReturn(rets, oid) ==
  \E i \in DOMAIN rets : rets[i].order = oid /\ rets[i].status \in ActiveStatuses

\* timedelta.days of a difference that is not negative: its whole days
WholeDays(d) == d \div Days(1)

\* the dictionary _check_eligibility returns, by the rule that decided: reason
\* names the rule ("" when eligible), cites is the order status the reason
\* quotes, and return_window_days 0, deadline Null stand for a key left out
Verdict(eligible, reason, cites, window, deadline, days) ==
  [ eligible |-> eligible, reason |-> reason, cites |-> cites,
    return_window_days |-> window, deadline |-> deadline, days |-> days ]

\* (mutant) Rule 1 is skipped for an order that has a delivery date
EligibilityOfNoStatusRule(order, t, active) ==
  IF order.delivered_at = Null
  THEN Verdict(FALSE, "no_delivery_date", "", 0, Null, 0)
  ELSE IF t > Deadline(order)
  THEN Verdict(FALSE, "expired", "", WindowDays(order.category),
               Some(Deadline(order)), WholeDays(t - Deadline(order)))
  ELSE IF active
  THEN Verdict(FALSE, "active_return", "", 0, Null, 0)
  ELSE Verdict(TRUE, "", "", WindowDays(order.category),
               Some(Deadline(order)), WholeDays(Deadline(order) - t))

\* (mutant) the window is over at the deadline itself
EligibilityOfInclusive(order, t, active) ==
  IF order.status # "delivered"
  THEN Verdict(FALSE, "not_delivered", order.status, 0, Null, 0)
  ELSE IF order.delivered_at = Null
  THEN Verdict(FALSE, "no_delivery_date", "", 0, Null, 0)
  ELSE IF t >= Deadline(order)
  THEN Verdict(FALSE, "expired", "", WindowDays(order.category),
               Some(Deadline(order)), WholeDays(t - Deadline(order)))
  ELSE IF active
  THEN Verdict(FALSE, "active_return", "", 0, Null, 0)
  ELSE Verdict(TRUE, "", "", WindowDays(order.category),
               Some(Deadline(order)), WholeDays(Deadline(order) - t))

\* (mutant) the rule on the return window is left out
EligibilityOfNoExpiry(order, t, active) ==
  IF order.status # "delivered"
  THEN Verdict(FALSE, "not_delivered", order.status, 0, Null, 0)
  ELSE IF order.delivered_at = Null
  THEN Verdict(FALSE, "no_delivery_date", "", 0, Null, 0)
  ELSE IF active
  THEN Verdict(FALSE, "active_return", "", 0, Null, 0)
  ELSE Verdict(TRUE, "", "", WindowDays(order.category),
               Some(Deadline(order)), WholeDays(Deadline(order) - t))

\* _check_eligibility(order) called at time t; active is the outcome of the
\* query for an active return of the order
EligibilityOf(order, t, active) ==
  IF order.status # "delivered"
  THEN Verdict(FALSE, "not_delivered", order.status, 0, Null, 0)
  ELSE IF order.delivered_at = Null
  THEN Verdict(FALSE, "no_delivery_date", "", 0, Null, 0)
  ELSE IF t > Deadline(order)
  THEN Verdict(FALSE, "expired", "", WindowDays(order.category),
               Some(Deadline(order)), WholeDays(t - Deadline(order)))
  ELSE IF active
  THEN Verdict(FALSE, "active_return", "", 0, Null, 0)
  ELSE Verdict(TRUE, "", "", WindowDays(order.category),
               Some(Deadline(order)), WholeDays(Deadline(order) - t))

\* the rule of _check_eligibility that decides order oid at time t
CheckEligibility(oid, t, rets) ==
  LET verdict == EligibilityOf(Orders[oid], t, HasActiveReturn(rets, oid))
  IN  IF verdict.eligible THEN "eligible" ELSE verdict.reason

(***************************************************************************)
(* Creation: views.create_return                                           *)
(***************************************************************************)
\* (mutant) the lookup without its filter: the latest return, whatever its key
IdempotencyLookupAnyKey(rets, key) ==
  IF key # NoKey /\ rets # << >> THEN Len(rets) ELSE 0

\* (mutant) no lookup at all
IdempotencyLookupOff(rets, key) == 0

\* Step 1: the idempotency lookup; 0 when no return is found
IdempotencyLookup(rets, key) ==
  IF key # NoKey THEN FindByKeyIn(rets, key) ELSE 0

\* (mutant) the threshold itself does not count as high value
HighValueBranchStrict(total) ==
  IF total > HIGH_VALUE_THRESHOLD
  THEN [is_high_value |-> TRUE, status |-> "pending"]
  ELSE [is_high_value |-> FALSE, status |-> "approved"]

\* the high-value branch: is_high_value and the initial status
HighValueBranch(total) ==
  IF total >= HIGH_VALUE_THRESHOLD
  THEN [is_high_value |-> TRUE, status |-> "pending"]
  ELSE [is_high_value |-> FALSE, status |-> "approved"]

\* the ReturnRequest built in Step 3 (the columns the lifecycle reads or writes)
NewReturn(oid, reason, key, t) ==
  LET order == Orders[oid]
      hv == HighValueBranch(order.total_amount)
  IN  [ order |-> oid,
        customer_id |-> order.customer_id,
        reason |-> reason,
        status |-> hv.status,
        refund_amount |-> order.total_amount,
        refund_reference |-> "",
        tracking_number |-> "",
        logistics_partner |-> "",
        pickup_scheduled_date |-> Null,
        pickup_completed_date |-> Null,
        idempotency_key |-> key,
        is_flagged |-> FALSE,
        is_high_value |-> hv.is_high_value,
        created_at |-> t ]

\* the UNIQUE constraint of return_requests.idempotency_key (NULLs never collide)
KeyCollides(rets, key) ==
  key # NoKey /\ \E i \in DOMAIN rets : rets[i].idempotency_key = key

\* (mutant) the row records the new status as the previous one too
HistoryRowFromNew(from, to, by) ==
  [from_status |-> to, to_status |-> to, changed_by |-> by]

\* one row of return_status_history
HistoryRow(from, to, by) ==
  [from_status |-> from, to_status |-> to, changed_by |-> by]

\* the number of rows of return_status_history
RECURSIVE HistoryCount(_)
HistoryCount(h) ==
  IF h = << >> THEN 0 ELSE Len(Head(h)) + HistoryCount(Tail(h))

(***************************************************************************)
(* Fraud rules: views._check_fraud_flags                                   *)
(***************************************************************************)
\* returns of the customer created in the trailing 30 days
\* (mutant) a return created exactly 30 days ago is outside the window
RecentReturnsCountAfter(rets, customer, t) ==
  Cardinality({ i \in DOMAIN rets :
                  rets[i].customer_id = customer /\ rets[i].created_at > t - Days(30) })

RecentReturnsCount(rets, customer, t) ==
  Cardinality({ i \in DOMAIN rets :
                  rets[i].customer_id = customer /\ rets[i].created_at >= t - Days(30) })

\* (mutant) the docstring's rule: "High value return (> HIGH_VALUE_THRESHOLD)"
FraudFlagTypesStrict(rets, r, oid, t) ==
  LET order == Orders[oid]
  IN  (IF RecentReturnsCount(rets, rets[r].customer_id, t) > MAX_RETURNS_PER_MONTH
       THEN << "frequent_returns" >> ELSE << >>)
      \o (IF order.total_amount > HIGH_VALUE_THRESHOLD
          THEN << "high_value" >> ELSE << >>)
      \o (IF order.delivered_at # Null /\ t - order.delivered_at[1] < Hours(1)
          THEN << "quick_return" >> ELSE << >>)

\* (mutant) a return exactly one hour after the delivery is still a quick one
FraudFlagTypesWithinHour(rets, r, oid, t) ==
  LET order == Orders[oid]
  IN  (IF RecentReturnsCount(rets, rets[r].customer_id, t) > MAX_RETURNS_PER_MONTH
       THEN << "frequent_returns" >> ELSE << >>)
      \o (IF order.total_amount >= HIGH_VALUE_THRESHOLD
          THEN << "high_value" >> ELSE << >>)
      \o (IF order.delivered_at # Null /\ t - order.delivered_at[1] <= Hours(1)
          THEN << "quick_return" >> ELSE << >>)

\* the flag types raised for return r of order oid, in the order of the rules
FraudFlagTypes(rets, r, oid, t) ==
  LET order == Orders[oid]
  IN  (IF RecentReturnsCount(rets, rets[r].customer_id, t) > MAX_RETURNS_PER_MONTH
       THEN << "frequent_returns" >> ELSE << >>)
      \o (IF order.total_amount >= HIGH_VALUE_THRESHOLD
          THEN << "high_value" >> ELSE << >>)
      \o (IF order.delivered_at # Null /\ t - order.delivered_at[1] < Hours(1)
          THEN << "quick_return" >> ELSE << >>)

\* (mutant) the return is marked only when several rules fired
MarkFlaggedOnSeveral(rets, r, raised) ==
  IF Len(raised) > 1 THEN [rets EXCEPT ![r].is_flagged = TRUE] ELSE rets

\* "if flags_created: return_request.is_flagged = True;
\*  return_request.save(update_fields=['is_flagged'])"
MarkFlagged(rets, r, raised) ==
  IF raised # << >> THEN [rets EXCEPT ![r].is_flagged = TRUE] ELSE rets

\* (mutant) each rule is evaluated twice
FraudFlagRowsTwice(rets, r, oid, t) ==
  LET types == FraudFlagTypes(rets, r, oid, t) \o FraudFlagTypes(rets, r, oid, t)
  IN  [ k \in DOMAIN types |->
          [customer_id |-> rets[r].customer_id,
           flag_type |-> types[k], status |-> "open"] ]

\* FraudFlag.objects.create(...) for each raised type; status defaults to open
FraudFlagRows(rets, r, oid, t) ==
  LET types == FraudFlagTypes(rets, r, oid, t)
  IN  [ k \in DOMAIN types |->
          [customer_id |-> rets[r].customer_id,
           flag_type |-> types[k], status |-> "open"] ]

(***************************************************************************)
(* Responses.                                                              *)
(***************************************************************************)
Response(op, code, rn, key) == [op |-> op, code |-> code, rn |-> rn, key |-> key]

\* no helper is under study
NoEvaluation == [fn |-> "none"]

(***************************************************************************)
(* Init                                                                    *)
(***************************************************************************)
Init ==
  /\ returns = << >>
  /\ history = << >>
  /\ flags = << >>
  /\ now = T0
  /\ resp = Response("none", 0, 0, NoKey)
  /\ procs = << >>
  /\ evaluation = NoEvaluation

(***************************************************************************)
(* views.create_return, handled as a whole                                 *)
(***************************************************************************)
\* (mutant) the eligibility check runs before the idempotency lookup
CreateReturnEligibilityFirst(oid, reason, pin, key) ==
  /\ UNCHANGED << now, evaluation, procs >>
  /\ IF ~CreateValid(oid, pin)
     THEN /\ resp' = Response("create", 400, 0, key)
          /\ UNCHANGED << returns, history, flags >>
     ELSE
     LET existing == IdempotencyLookup(returns, key)
         r == Len(returns) + 1
         saved == Append(returns, NewReturn(oid, reason, key, now))
         raised == FraudFlagRows(saved, r, oid, now)
     IN  IF CheckEligibility(oid, now, returns) # "eligible"
         THEN /\ resp' = Response("create", 400, 0, key)
              /\ UNCHANGED << returns, history, flags >>
         ELSE IF existing # 0
         THEN /\ resp' = Response("create", 200, existing, key)
              /\ UNCHANGED << returns, history, flags >>
         ELSE IF KeyCollides(returns, key)
         THEN /\ resp' = Response("create", 500, 0, key)
              /\ UNCHANGED << returns, history, flags >>
         ELSE /\ returns' = MarkFlagged(saved, r, raised)
              /\ history' = Append(history, << HistoryRow("", saved[r].status, "system") >>)
              /\ flags' = Append(flags, raised)
              /\ resp' = Response("create", 201, r, key)

CreateReturn(oid, reason, pin, key) ==
  /\ UNCHANGED << now, evaluation, procs >>
  /\ IF ~CreateValid(oid, pin)
     THEN /\ resp' = Response("create", 400, 0, key)
          /\ UNCHANGED << returns, history, flags >>
     ELSE
     LET existing == IdempotencyLookup(returns, key)
         r == Len(returns) + 1
         saved == Append(returns, NewReturn(oid, reason, key, now))
         raised == FraudFlagRows(saved, r, oid, now)
     IN  IF existing # 0
         THEN /\ resp' = Response("create", 200, existing, key)
              /\ UNCHANGED << returns, history, flags >>
         ELSE IF CheckEligibility(oid, now, returns) # "eligible"
         THEN /\ resp' = Response("create", 400, 0, key)
              /\ UNCHANGED << returns, history, flags >>
         ELSE IF KeyCollides(returns, key)
         THEN /\ resp' = Response("create", 500, 0, key)
              /\ UNCHANGED << returns, history, flags >>
         ELSE /\ returns' = MarkFlagged(saved, r, raised)
              /\ history' = Append(history, << HistoryRow("", saved[r].status, "system") >>)
              /\ flags' = Append(flags, raised)
              /\ resp' = Response("create", 201, r, key)

(***************************************************************************)
(* views.cancel_return                                                     *)
(***************************************************************************)
CancellableStatuses == { "pending", "approved", "pickup_scheduled" }

\* (mutant) a picked-up return can still be cancelled
CanCancelPickedUp(status) == status \in CancellableStatuses \cup { "picked_up" }

\* (mutant) the docstring's rule: only pending or approved
CanCancelEarly(status) == status \in { "pending", "approved" }

\* "if return_request.status not in cancellable_statuses" (negated)
CanCancel(status) == status \in CancellableStatuses

CancelReturn(rid) ==
  /\ UNCHANGED << now, evaluation, flags, procs >>
  /\ IF rid \notin ReturnIds
     THEN /\ resp' = Response("cancel", 404, 0, NoKey)
          /\ UNCHANGED << returns, history >>
     ELSE IF ~CanCancel(returns[rid].status)
     THEN /\ resp' = Response("cancel", 400, rid, NoKey)
          /\ UNCHANGED << returns, history >>
     ELSE /\ returns' = [returns EXCEPT ![rid].status = "cancelled"]
          /\ history' = [history EXCEPT ![rid] =
                          Append(@, HistoryRow(returns[rid].status, "cancelled", "customer"))]
          /\ resp' = Response("cancel", 200, rid, NoKey)

\* the clock moves on
Tick ==
  /\ \E t \in Instants : t > now /\ now' = t
  /\ UNCHANGED << returns, history, flags, resp, procs, evaluation >>


(***************************************************************************)
(* webhooks.logistics_pickup_webhook                                       *)
(***************************************************************************)
\* (mutant) warehouse_received is taken for the start of the quality check
LogisticsTargetWarehouseAsCheck(event, cur) ==
  CASE event = "out_for_pickup" -> "pickup_scheduled"
    [] event = "picked_up" -> "picked_up"
    [] event = "failed_attempt" -> cur
    [] event = "rescheduled" -> "pickup_scheduled"
    [] event = "warehouse_received" -> "quality_check"
    [] event = "quality_check_started" -> "quality_check"
    [] OTHER -> ""

\* (mutant) a return that is cancelled, rejected or refunded takes no more events
LogisticsTargetGuarded(event, cur) ==
  IF cur \in { "cancelled", "rejected", "refund_completed" } THEN ""
  ELSE CASE event = "out_for_pickup" -> "pickup_scheduled"
         [] event = "picked_up" -> "picked_up"
         [] event = "failed_attempt" -> cur
         [] event = "rescheduled" -> "pickup_scheduled"
         [] event = "warehouse_received" -> "warehouse_received"
         [] event = "quality_check_started" -> "quality_check"
         [] OTHER -> ""

\* (mutant) an event outside the vocabulary is taken like a failed attempt
LogisticsTargetLenient(event, cur) ==
  CASE event = "out_for_pickup" -> "pickup_scheduled"
    [] event = "picked_up" -> "picked_up"
    [] event = "rescheduled" -> "pickup_scheduled"
    [] event = "warehouse_received" -> "warehouse_received"
    [] event = "quality_check_started" -> "quality_check"
    [] OTHER -> cur

\* (mutant) a failed pickup attempt sends the return back to pending
LogisticsTargetFailedToPending(event, cur) ==
  CASE event = "out_for_pickup" -> "pickup_scheduled"
    [] event = "picked_up" -> "picked_up"
    [] event = "failed_attempt" -> "pending"
    [] event = "rescheduled" -> "pickup_scheduled"
    [] event = "warehouse_received" -> "warehouse_received"
    [] event = "quality_check_started" -> "quality_check"
    [] OTHER -> ""

\* event_status_map.get(event); "" for None
LogisticsTarget(event, cur) ==
  CASE event = "out_for_pickup" -> "pickup_scheduled"
    [] event = "picked_up" -> "picked_up"
    [] event = "failed_attempt" -> cur
    [] event = "rescheduled" -> "pickup_scheduled"
    [] event = "warehouse_received" -> "warehouse_received"
    [] event = "quality_check_started" -> "quality_check"
    [] OTHER -> ""

\* the in-memory return after "Update return request" (lines 113-125)
LogisticsUpdate(obj, event, tracking, partner, t) ==
  [ obj EXCEPT
      !.status = LogisticsTarget(event, obj.status),
      !.tracking_number = IF tracking # "" THEN tracking ELSE @,
      !.logistics_partner = IF partner # "" THEN partner ELSE @,
      !.pickup_completed_date = IF event = "picked_up" THEN Some(t) ELSE @,
      !.pickup_scheduled_date = IF event = "out_for_pickup" THEN Some(t) ELSE @ ]

LogisticsWebhook(token, rn, event, tracking, partner) ==
  /\ UNCHANGED << now, evaluation, flags, procs >>
  /\ IF token # WEBHOOK_SECRET
     THEN /\ resp' = Response("logistics", 401, 0, NoKey)
          /\ UNCHANGED << returns, history >>
     ELSE IF rn = 0 \/ event = "missing"
     THEN /\ resp' = Response("logistics", 400, 0, NoKey)
          /\ UNCHANGED << returns, history >>
     ELSE IF rn \notin ReturnIds
     THEN /\ resp' = Response("logistics", 404, 0, NoKey)
          /\ UNCHANGED << returns, history >>
     ELSE IF LogisticsTarget(event, returns[rn].status) = ""
     THEN /\ resp' = Response("logistics", 400, rn, NoKey)
          /\ UNCHANGED << returns, history >>
     ELSE /\ returns' = [returns EXCEPT
                           ![rn] = LogisticsUpdate(@, event, tracking, partner, now)]
          /\ history' = [history EXCEPT ![rn] =
                          Append(@, HistoryRow(returns[rn].status,
                                     LogisticsTarget(event, returns[rn].status), "webhook"))]
          /\ resp' = Response("logistics", 200, rn, NoKey)

(***************************************************************************)
(* webhooks.refund_status_webhook                                          *)
(***************************************************************************)
\* (mutant) a failed refund is not in the vocabulary
RefundTargetFailedUnknown(rstatus, cur) ==
  CASE rstatus = "initiated" -> "refund_initiated"
    [] rstatus = "completed" -> "refund_completed"
    [] OTHER -> ""

\* refund_status_map.get(refund_status); "" for None
RefundTarget(rstatus, cur) ==
  CASE rstatus = "initiated" -> "refund_initiated"
    [] rstatus = "completed" -> "refund_completed"
    [] rstatus = "failed" -> cur
    [] OTHER -> ""

\* (mutant) the refunded amount of each delivery is added to the stored one
RefundUpdateAdding(obj, rstatus, reference, amount) ==
  [ obj EXCEPT
      !.status = RefundTarget(rstatus, obj.status),
      !.refund_reference = IF reference # "" THEN reference ELSE @,
      !.refund_amount = @ + amount ]

\* the in-memory return after "Update return request" (lines 229-234)
RefundUpdate(obj, rstatus, reference, amount) ==
  [ obj EXCEPT
      !.status = RefundTarget(rstatus, obj.status),
      !.refund_reference = IF reference # "" THEN reference ELSE @,
      !.refund_amount = IF amount # 0 THEN amount ELSE @ ]

RefundWebhook(token, rn, rstatus, reference, amount) ==
  /\ UNCHANGED << now, evaluation, flags, procs >>
  /\ IF token # WEBHOOK_SECRET
     THEN /\ resp' = Response("refund", 401, 0, NoKey)
          /\ UNCHANGED << returns, history >>
     ELSE IF rn = 0 \/ rstatus = "missing"
     THEN /\ resp' = Response("refund", 400, 0, NoKey)
          /\ UNCHANGED << returns, history >>
     ELSE IF rn \notin ReturnIds
     THEN /\ resp' = Response("refund", 404, 0, NoKey)
          /\ UNCHANGED << returns, history >>
     ELSE IF RefundTarget(rstatus, returns[rn].status) = ""
     THEN /\ resp' = Response("refund", 400, rn, NoKey)
          /\ UNCHANGED << returns, history >>
     ELSE /\ returns' = [returns EXCEPT
                           ![rn] = RefundUpdate(@, rstatus, reference, amount)]
          /\ history' = [history EXCEPT ![rn] =
                          Append(@, HistoryRow(returns[rn].status,
                                     RefundTarget(rstatus, returns[rn].status), "webhook"))]
          /\ resp' = Response("refund", 200, rn, NoKey)

(***************************************************************************)
(* admin.ReturnRequestAdmin: the bulk actions on a selection of returns    *)
(***************************************************************************)
\* (mutant) a return the admin has decided is no longer marked high-value
BulkUpdateClearingHighValue(rets, sel, from, to) ==
  [ i \in DOMAIN rets |->
      IF i \in sel /\ rets[i].status = from
      THEN [rets[i] EXCEPT !.status = to, !.is_high_value = FALSE] ELSE rets[i] ]

\* (mutant) the update without its filter on the status
BulkUpdateAnyStatus(rets, sel, from, to) ==
  [ i \in DOMAIN rets |->
      IF i \in sel THEN [rets[i] EXCEPT !.status = to] ELSE rets[i] ]

\* queryset.filter(status=from).update(status=to)
BulkUpdate(rets, sel, from, to) ==
  [ i \in DOMAIN rets |->
      IF i \in sel /\ rets[i].status = from
      THEN [rets[i] EXCEPT !.status = to] ELSE rets[i] ]

\* (mutant) the admin's row takes the place of the latest row
BulkHistoryReplacingLast(hist, rets, sel, from, to) ==
  [ i \in DOMAIN hist |->
      IF i \in sel /\ rets[i].status = to
      THEN Append(SubSeq(hist[i], 1, Len(hist[i]) - 1), HistoryRow(from, to, "admin"))
      ELSE hist[i] ]

\* the history after "for ret in queryset.filter(status=to): create(...)"
BulkHistory(hist, rets, sel, from, to) ==
  [ i \in DOMAIN hist |->
      IF i \in sel /\ rets[i].status = to
      THEN Append(hist[i], HistoryRow(from, to, "admin")) ELSE hist[i] ]

ApproveReturns(sel) ==
  LET updated == BulkUpdate(returns, sel, "pending", "approved")
      written == BulkHistory(history, updated, sel, "pending", "approved")
  IN  /\ returns' = updated
      /\ history' = written
      /\ resp' = Response("approve", 200, 0, NoKey)
      /\ UNCHANGED << now, evaluation, flags, procs >>

RejectReturns(sel) ==
  LET updated == BulkUpdate(returns, sel, "pending", "rejected")
      written == BulkHistory(history, updated, sel, "pending", "rejected")
  IN  /\ returns' = updated
      /\ history' = written
      /\ resp' = Response("reject", 200, 0, NoKey)
      /\ UNCHANGED << now, evaluation, flags, procs >>

MarkAsPickupScheduled(sel) ==
  /\ returns' = BulkUpdate(returns, sel, "approved", "pickup_scheduled")
  /\ resp' = Response("mark_pickup", 200, 0, NoKey)
  /\ UNCHANGED << history, now, evaluation, flags, procs >>

(***************************************************************************)
(* The requests the model sends.  "missing" stands for a payload without   *)
(* the field, "" for an optional field left out, 0 for a return number or  *)
(* an amount left out; MaxReturns + 1 names no return.                     *)
(***************************************************************************)
ValidPincode == << "5", "6", "0", "0", "0", "1" >>
BadPincodes == { << "5", "6", "0", "0", "1" >>, << "5", "6", "0", "0", "0", "x" >> }
ReqKeys == { NoKey, "k1" }

CreateRequests ==
  [order_id : { 1, 2, 3, 4, 99 }, reason : { "defective" },
   pincode : { ValidPincode }, key : ReqKeys]
  \cup [order_id : { 1 }, reason : { "changed_mind" }, pincode : BadPincodes, key : { "k1" }]

ReqReturnNumbers == 1 .. (MaxReturns + 1)

LogisticsRequests ==
  [token : { WEBHOOK_SECRET }, return_number : 1 .. MaxReturns,
   event : { "out_for_pickup", "picked_up", "failed_attempt" },
   tracking_number : { "" }, logistics_partner : { "" }]
  \cup [token : { "wrong-token" }, return_number : { 1 }, event : { "picked_up" },
        tracking_number : { "" }, logistics_partner : { "" }]

RefundRequests ==
  [token : { WEBHOOK_SECRET }, return_number : 1 .. MaxReturns,
   refund_status : { "completed", "failed" },
   refund_reference : { "" }, refund_amount : { 0 }]
  \cup [token : { WEBHOOK_SECRET }, return_number : { 1 }, refund_status : { "reversed" },
        refund_reference : { "" }, refund_amount : { 0 }]

\* the admin's selection: some returns, at least one
Selections == (SUBSET ReturnIds) \ { {} }

(***************************************************************************)
(* Requests handled one at a time.  The tables are explored up to maxR     *)
(* returns and maxH history rows: a step is taken when the state it        *)
(* reaches is within them.                                                 *)
(***************************************************************************)
Bounded(maxR, maxH) ==
  /\ Len(returns) <= maxR
  /\ HistoryCount(history) <= maxH

Next ==
  \/ \E q \in CreateRequests :
       /\ CreateReturn(q.order_id, q.reason, q.pincode, q.key)
       /\ Bounded(MaxReturns, MaxHistory)'
  \/ \E rid \in ReqReturnNumbers :
       /\ CancelReturn(rid)
       /\ Bounded(MaxReturns, MaxHistory)'
  \/ \E q \in LogisticsRequests :
       /\ LogisticsWebhook(q.token, q.return_number, q.event,
                        q.tracking_number, q.logistics_partner)
       /\ Bounded(MaxReturns, MaxHistory)'
  \/ \E q \in RefundRequests :
       /\ RefundWebhook(q.token, q.return_number, q.refund_status,
                     q.refund_reference, q.refund_amount)
       /\ Bounded(MaxReturns, MaxHistory)'
  \/ \E sel \in Selections :
       /\ ApproveReturns(sel)
       /\ Bounded(MaxReturns, MaxHistory)'
  \/ \E sel \in Selections :
       /\ RejectReturns(sel)
       /\ Bounded(MaxReturns, MaxHistory)'
  \/ \E sel \in Selections :
       /\ MarkAsPickupScheduled(sel)
       /\ Bounded(MaxReturns, MaxHistory)'

Spec == Init /\ [][Next]_vars


(***************************************************************************)
(* Properties of the lifecycle, requests handled one at a time (Spec).     *)
(***************************************************************************)
Last(seq) == seq[Len(seq)]

\* C1: cancel_return on a return whose status is not pending, approved or
\* pickup_scheduled is answered with an error (400), and the step changes
\* neither the return (its status included) nor any history.
C1_CancelRejectedChangesNothing ==
  [][ \A rid \in ReturnIds :
        ( /\ returns[rid].status \notin { "pending", "approved", "pickup_scheduled" }
          /\ CancelReturn(rid) )
        => /\ resp'.op = "cancel" /\ resp'.code = 400
           /\ returns' = returns
           /\ history' = history ]_vars

\* C1 witness: a cancel was just refused on a picked-up return, which still
\* is picked up and has the two history rows it had.
C1_Witness ==
  /\ resp.op = "cancel" /\ resp.code = 400
  /\ resp.rn \in ReturnIds
  /\ returns[resp.rn].status = "picked_up"
  /\ Len(history[resp.rn]) = 2

HoldersOf(k) == { i \in ReturnIds : returns[i].idempotency_key = k }

\* C3: after any sequence of create_return requests handled one at a time
\* (and of the other operations), at most one return holds each non-null
\* idempotency key; every creation request answered with a return (200 or
\* 201) that carries a key is answered with the number of the return holding
\* that key; and no row is removed nor its key changed, so that number is the
\* same for every such request.
C3_OneReturnPerKey ==
  /\ [] ( /\ \A k \in ReqKeys \ { NoKey } : Cardinality(HoldersOf(k)) <= 1
          /\ ( resp.op = "create" /\ resp.key # NoKey /\ resp.code \in { 200, 201 } )
               => HoldersOf(resp.key) = { resp.rn } )
  /\ [][ \A i \in ReturnIds :
           /\ i \in DOMAIN returns'
           /\ returns'[i].idempotency_key = returns[i].idempotency_key ]_vars

\* C3 witness: a repeated request with key k1 was just answered with the
\* return created for k1, while another return exists too.
C3_Witness ==
  /\ resp.op = "create" /\ resp.code = 200 /\ resp.key = "k1"
  /\ HoldersOf("k1") = { resp.rn }
  /\ Len(returns) = 2

\* C4: a create_return request whose key already belongs to a return creates
\* no return, no history row and no fraud flag and changes no field of any
\* return; when its input is valid it is answered 200 with that return,
\* where a creation, and only a creation, is answered 201.
C4_DuplicateKeyNoSideEffect ==
  [][ resp'.op = "create"
      => /\ \A q \in CreateRequests :
              ( /\ q.key = resp'.key
                /\ q.key # NoKey
                /\ HoldersOf(q.key) # {}
                /\ CreateReturn(q.order_id, q.reason, q.pincode, q.key) )
              => /\ returns' = returns /\ history' = history /\ flags' = flags
                 /\ CreateValid(q.order_id, q.pincode)
                      => resp'.code = 200 /\ resp'.rn \in HoldersOf(q.key)
         /\ resp'.code = 201 <=> Len(returns') = Len(returns) + 1
         /\ resp'.code = 200 => HoldersOf(resp'.key) # {} ]_vars

\* C4 witness: a request with key k1 for order 2 was just answered with the
\* existing return of order 1, which is the only return and has one history row.
C4_Witness ==
  /\ resp.op = "create" /\ resp.code = 200 /\ resp.key = "k1"
  /\ Len(returns) = 1
  /\ returns[1].idempotency_key = "k1"
  /\ Len(history[1]) = 1

\* C6 (as claimed): each order has at most one return whose status is active.
C6_OneActiveReturnPerOrder ==
  \A i, j \in ReturnIds :
    ( /\ i # j
      /\ returns[i].order = returns[j].order
      /\ returns[i].status \in ActiveStatuses )
    => returns[j].status \notin ActiveStatuses

\* C7 (as claimed): the to_status of the latest history row of a return is
\* the return's status.
C7_LastHistoryIsStatus ==
  \A r \in ReturnIds : Last(history[r]).to_status = returns[r].status

\* C8 (as claimed): the first history row of a return has an empty
\* from_status and every later row starts from the to_status of the row
\* before it.
C8_HistoryChains ==
  \A r \in ReturnIds :
    /\ history[r][1].from_status = ""
    /\ \A k \in 2 .. Len(history[r]) :
         history[r][k].from_status = history[r][k - 1].to_status

MaxProcs == 2

\* procs without its p-th request
RemoveAt(s, p) ==
  [ i \in 1 .. (Len(s) - 1) |-> IF i < p THEN s[i] ELSE s[i + 1] ]

\* creation requests in flight that have not inserted their return yet
InFlightCreates ==
  Cardinality({ p \in DOMAIN procs : procs[p].op = "create" /\ procs[p].rn = 0 })

\* room for one more request and for the rows the requests in flight may insert
CanAccept ==
  /\ Len(procs) < MaxProcs
  /\ HistoryCount(history) + Len(procs) < MaxHistory

\* the request answers and leaves
Finish(p, response) ==
  /\ procs' = RemoveAt(procs, p)
  /\ resp' = response

\* the request moves on to its next query
Goto(p, pc) == procs' = [procs EXCEPT ![p].pc = pc]

\* create_return: serializer.is_valid() and Order.objects.get (lines 58-67)
CreateReceive(q) ==
  /\ CanAccept
  /\ Len(returns) + InFlightCreates < MaxReturns
  /\ UNCHANGED << returns, history, flags, now, evaluation >>
  /\ IF ~CreateValid(q.order_id, q.pincode)
     THEN /\ resp' = Response("create", 400, 0, q.key)
          /\ UNCHANGED procs
     ELSE /\ procs' = Append(procs, [op |-> "create", pc |-> "idempotency", req |-> q, rn |-> 0])
          /\ UNCHANGED resp

\* create_return, Step 1: the idempotency lookup
CreateIdempotencyCheck(p) ==
  /\ p \in DOMAIN procs
  /\ procs[p].op = "create" /\ procs[p].pc = "idempotency"
  /\ UNCHANGED << returns, history, flags, now, evaluation >>
  /\ LET existing == IdempotencyLookup(returns, procs[p].req.key)
     IN  IF existing # 0
         THEN Finish(p, Response("create", 200, existing, procs[p].req.key))
         ELSE Goto(p, "eligibility") /\ UNCHANGED resp

\* create_return, Step 2: _check_eligibility
CreateEligibilityCheck(p) ==
  /\ p \in DOMAIN procs
  /\ procs[p].op = "create" /\ procs[p].pc = "eligibility"
  /\ UNCHANGED << returns, history, flags, now, evaluation >>
  /\ IF CheckEligibility(procs[p].req.order_id, now, returns) # "eligible"
     THEN Finish(p, Response("create", 400, 0, procs[p].req.key))
     ELSE Goto(p, "save") /\ UNCHANGED resp

\* create_return, Step 3: return_request.save(), the INSERT.  Nothing catches
\* the IntegrityError of the unique idempotency_key: the request ends in 500.
CreateSave(p) ==
  /\ p \in DOMAIN procs
  /\ procs[p].op = "create" /\ procs[p].pc = "save"
  /\ UNCHANGED << now, evaluation >>
  /\ LET q == procs[p].req
     IN  IF KeyCollides(returns, q.key)
         THEN /\ Finish(p, Response("create", 500, 0, q.key))
              /\ UNCHANGED << returns, history, flags >>
         ELSE /\ returns' = Append(returns, NewReturn(q.order_id, q.reason, q.key, now))
              /\ history' = Append(history, << >>)
              /\ flags' = Append(flags, << >>)
              /\ procs' = [procs EXCEPT ![p].pc = "history", ![p].rn = Len(returns) + 1]
              /\ UNCHANGED resp

\* create_return, Step 4: ReturnStatusHistory.objects.create; the status is
\* the one of the in-memory return
CreateRecordHistory(p) ==
  /\ p \in DOMAIN procs
  /\ procs[p].op = "create" /\ procs[p].pc = "history"
  /\ UNCHANGED << returns, flags, now, evaluation, resp >>
  /\ history' = [history EXCEPT ![procs[p].rn] =
                  Append(@, HistoryRow("", HighValueBranch(Orders[procs[p].req.order_id].total_amount).status,
                                       "system"))]
  /\ Goto(p, "fraud")

\* create_return, Step 5: _check_fraud_flags, then the 201
CreateCheckFraud(p) ==
  /\ p \in DOMAIN procs
  /\ procs[p].op = "create" /\ procs[p].pc = "fraud"
  /\ UNCHANGED << history, now, evaluation >>
  /\ LET r == procs[p].rn
         raised == FraudFlagRows(returns, r, procs[p].req.order_id, now)
     IN  /\ flags' = [flags EXCEPT ![r] = @ \o raised]
         /\ returns' = MarkFlagged(returns, r, raised)
         /\ Finish(p, Response("create", 201, r, procs[p].req.key))

\* logistics_pickup_webhook up to "old_status = return_request.status": the
\* checks, the read of the row, and the update of the in-memory return
LogisticsReceive(q) ==
  /\ CanAccept
  /\ UNCHANGED << returns, history, flags, now, evaluation >>
  /\ IF q.token # WEBHOOK_SECRET
     THEN resp' = Response("logistics", 401, 0, NoKey) /\ UNCHANGED procs
     ELSE IF q.return_number = 0 \/ q.event = "missing"
     THEN resp' = Response("logistics", 400, 0, NoKey) /\ UNCHANGED procs
     ELSE IF q.return_number \notin ReturnIds
     THEN resp' = Response("logistics", 404, 0, NoKey) /\ UNCHANGED procs
     ELSE IF LogisticsTarget(q.event, returns[q.return_number].status) = ""
     THEN resp' = Response("logistics", 400, q.return_number, NoKey) /\ UNCHANGED procs
     ELSE /\ procs' = Append(procs,
                [op |-> "logistics", pc |-> "save", req |-> q, rn |-> q.return_number,
                 old_status |-> returns[q.return_number].status,
                 obj |-> LogisticsUpdate(returns[q.return_number], q.event,
                                         q.tracking_number, q.logistics_partner, now)])
          /\ UNCHANGED resp

\* return_request.save(): every column of the in-memory return is written
LogisticsSave(p) ==
  /\ p \in DOMAIN procs
  /\ procs[p].op = "logistics" /\ procs[p].pc = "save"
  /\ returns' = [returns EXCEPT ![procs[p].rn] = procs[p].obj]
  /\ Goto(p, "history")
  /\ UNCHANGED << history, flags, now, evaluation, resp >>

\* ReturnStatusHistory.objects.create(from_status=old_status, ...), then the 200
LogisticsRecordHistory(p) ==
  /\ p \in DOMAIN procs
  /\ procs[p].op = "logistics" /\ procs[p].pc = "history"
  /\ history' = [history EXCEPT ![procs[p].rn] =
                  Append(@, HistoryRow(procs[p].old_status, procs[p].obj.status, "webhook"))]
  /\ Finish(p, Response("logistics", 200, procs[p].rn, NoKey))
  /\ UNCHANGED << returns, flags, now, evaluation >>

\* refund_status_webhook up to "old_status = return_request.status"
RefundReceive(q) ==
  /\ CanAccept
  /\ UNCHANGED << returns, history, flags, now, evaluation >>
  /\ IF q.token # WEBHOOK_SECRET
     THEN resp' = Response("refund", 401, 0, NoKey) /\ UNCHANGED procs
     ELSE IF q.return_number = 0 \/ q.refund_status = "missing"
     THEN resp' = Response("refund", 400, 0, NoKey) /\ UNCHANGED procs
     ELSE IF q.return_number \notin ReturnIds
     THEN resp' = Response("refund", 404, 0, NoKey) /\ UNCHANGED procs
     ELSE IF RefundTarget(q.refund_status, returns[q.return_number].status) = ""
     THEN resp' = Response("refund", 400, q.return_number, NoKey) /\ UNCHANGED procs
     ELSE /\ procs' = Append(procs,
                [op |-> "refund", pc |-> "save", req |-> q, rn |-> q.return_number,
                 old_status |-> returns[q.return_number].status,
                 obj |-> RefundUpdate(returns[q.return_number], q.refund_status,
                                      q.refund_reference, q.refund_amount)])
          /\ UNCHANGED resp

\* return_request.save(): every column of the in-memory return is written
RefundSave(p) ==
  /\ p \in DOMAIN procs
  /\ procs[p].op = "refund" /\ procs[p].pc = "save"
  /\ returns' = [returns EXCEPT ![procs[p].rn] = procs[p].obj]
  /\ Goto(p, "history")
  /\ UNCHANGED << history, flags, now, evaluation, resp >>

\* ReturnStatusHistory.objects.create(from_status=old_status, ...), then the 200
RefundRecordHistory(p) ==
  /\ p \in DOMAIN procs
  /\ procs[p].op = "refund" /\ procs[p].pc = "history"
  /\ history' = [history EXCEPT ![procs[p].rn] =
                  Append(@, HistoryRow(procs[p].old_status, procs[p].obj.status, "webhook"))]
  /\ Finish(p, Response("refund", 200, procs[p].rn, NoKey))
  /\ UNCHANGED << returns, flags, now, evaluation >>

\* the requests sent concurrently
ConcCreateRequests ==
  [order_id : { 1, 2 }, reason : { "defective" }, pincode : { ValidPincode }, key : ReqKeys]
  \cup [order_id : { 3 }, reason : { "defective" }, pincode : { ValidPincode }, key : { "k1" }]

ConcLogisticsRequests ==
  [token : { WEBHOOK_SECRET }, return_number : 1 .. MaxReturns,
   event : { "out_for_pickup", "picked_up" },
   tracking_number : { "" }, logistics_partner : { "" }]
  \cup [token : { "wrong-token" }, return_number : { 1 }, event : { "picked_up" },
        tracking_number : { "" }, logistics_partner : { "" }]

ConcRefundRequests ==
  [token : { WEBHOOK_SECRET }, return_number : 1 .. MaxReturns,
   refund_status : { "initiated" }, refund_reference : { "" }, refund_amount : { 0 }]

\* the places of procs
ProcIds == 1 .. MaxProcs

NextConc ==
  \/ \E q \in ConcCreateRequests : CreateReceive(q)
  \/ \E p \in ProcIds : CreateIdempotencyCheck(p)
  \/ \E p \in ProcIds : CreateEligibilityCheck(p)
  \/ \E p \in ProcIds : CreateSave(p)
  \/ \E p \in ProcIds : CreateRecordHistory(p)
  \/ \E p \in ProcIds : CreateCheckFraud(p)
  \/ \E q \in ConcLogisticsRequests : LogisticsReceive(q)
  \/ \E p \in ProcIds : LogisticsSave(p)
  \/ \E p \in ProcIds : LogisticsRecordHistory(p)
  \/ \E q \in ConcRefundRequests : RefundReceive(q)
  \/ \E p \in ProcIds : RefundSave(p)
  \/ \E p \in ProcIds : RefundRecordHistory(p)

SpecConc == Init /\ [][NextConc]_vars

\* C5: of two concurrent create_return requests bearing the same idempotency
\* key exactly one inserts a return, and no keyed creation request ends in a
\* hard failure (500): the one that loses the insert is answered with the
\* return that exists (200).
C5_LoserAnsweredAlreadyExists ==
  /\ \A k \in ReqKeys \ { NoKey } : Cardinality(HoldersOf(k)) <= 1
  /\ (resp.op = "create" /\ resp.key # NoKey) => resp.code # 500

\* returns with no webhook delivery or creation in flight on them
Quiescent(r) == \A p \in DOMAIN procs : procs[p].rn # r

\* C9: whatever the interleaving of webhook deliveries for a return (one
\* whose history starts with the row of its creation), once they have
\* finished the last history row's to_status is the stored status and every
\* row's from_status is the status stored right before the row's write, that
\* is the to_status of the row before it.
C9_ConcurrentWebhooksConsistent ==
  \A r \in ReturnIds :
    (Quiescent(r) /\ history[r] # << >> /\ history[r][1].changed_by = "system")
    => /\ Last(history[r]).to_status = returns[r].status
       /\ \A k \in 2 .. Len(history[r]) :
            history[r][k].from_status = history[r][k - 1].to_status

(***************************************************************************)
(* Fraud flags and the high-value mark.                                    *)
(***************************************************************************)
\* the rows of fraud_flags of return r with flag_type high_value
HighValueFlags(r) == { k \in DOMAIN flags[r] : flags[r][k].flag_type = "high_value" }

WebhookTokenHeaderFirst(body, header) == IF header # "" THEN header ELSE body

\* token = data.get('webhook_token') or request.headers.get('X-Webhook-Token');
\* "" stands for a token left out
WebhookToken(body, header) == IF body # "" THEN body ELSE header

\* the webhook_token of the body and the X-Webhook-Token header of a delivery
HookCredentials ==
  { [webhook_token |-> WEBHOOK_SECRET, header |-> ""],
    [webhook_token |-> "", header |-> WEBHOOK_SECRET] }

BadCredentials ==
  { [webhook_token |-> "wrong-token", header |-> WEBHOOK_SECRET],
    [webhook_token |-> "", header |-> "wrong-token"],
    [webhook_token |-> "", header |-> ""] }

LogisticsEvents ==
  { "out_for_pickup", "picked_up", "failed_attempt", "rescheduled",
    "warehouse_received", "quality_check_started" }

RefundStatuses == { "initiated", "completed", "failed" }

HookLogisticsRequests ==
  [cred : { [webhook_token |-> WEBHOOK_SECRET, header |-> ""] }, return_number : { 1 },
   event : LogisticsEvents \cup { "missing", "delivered" },
   tracking_number : { "" }, logistics_partner : { "" }]
  \cup [cred : { [webhook_token |-> "", header |-> WEBHOOK_SECRET] },
        return_number : { 0, 1, MaxReturns + 1 }, event : { "picked_up" },
        tracking_number : { "TRK1" }, logistics_partner : { "delhivery" }]
  \cup [cred : BadCredentials, return_number : { 1 }, event : { "picked_up" },
        tracking_number : { "TRK1" }, logistics_partner : { "delhivery" }]
  \cup [cred : { [webhook_token |-> "wrong-token", header |-> ""] },
        return_number : { MaxReturns + 1 }, event : { "picked_up" },
        tracking_number : { "" }, logistics_partner : { "" }]

HookRefundRequests ==
  [cred : { [webhook_token |-> WEBHOOK_SECRET, header |-> ""] }, return_number : { 1 },
   refund_status : RefundStatuses \cup { "missing", "reversed" },
   refund_reference : { "" }, refund_amount : { 0 }]
  \cup [cred : { [webhook_token |-> "", header |-> WEBHOOK_SECRET] },
        return_number : { 0, 1, MaxReturns + 1 }, refund_status : RefundStatuses,
        refund_reference : { "REF1" }, refund_amount : { 450 }]
  \cup [cred : BadCredentials, return_number : { 1 }, refund_status : { "completed" },
        refund_reference : { "REF1" }, refund_amount : { 450 }]
  \cup [cred : { [webhook_token |-> "wrong-token", header |-> ""] },
        return_number : { MaxReturns + 1 }, refund_status : { "completed" },
        refund_reference : { "" }, refund_amount : { 0 }]

\* creations of the high-value order: its returns start pending, so that the
\* admin can approve or reject them
HookCreateRequests ==
  [order_id : { 2 }, reason : { "defective" }, pincode : { ValidPincode }, key : { NoKey }]

NextHook ==
  \/ \E q \in HookCreateRequests :
       /\ CreateReturn(q.order_id, q.reason, q.pincode, q.key)
       /\ Bounded(MaxReturns, MaxHistory)'
  \/ \E rid \in ReqReturnNumbers :
       /\ CancelReturn(rid)
       /\ Bounded(MaxReturns, MaxHistory)'
  \/ \E q \in HookLogisticsRequests :
       /\ LogisticsWebhook(WebhookToken(q.cred.webhook_token, q.cred.header), q.return_number,
                        q.event, q.tracking_number, q.logistics_partner)
       /\ Bounded(MaxReturns, MaxHistory)'
  \/ \E q \in HookRefundRequests :
       /\ RefundWebhook(WebhookToken(q.cred.webhook_token, q.cred.header), q.return_number,
                     q.refund_status, q.refund_reference, q.refund_amount)
       /\ Bounded(MaxReturns, MaxHistory)'
  \/ \E sel \in Selections :
       /\ ApproveReturns(sel)
       /\ Bounded(MaxReturns, MaxHistory)'
  \/ \E sel \in Selections :
       /\ RejectReturns(sel)
       /\ Bounded(MaxReturns, MaxHistory)'
  \/ \E sel \in Selections :
       /\ MarkAsPickupScheduled(sel)
       /\ Bounded(MaxReturns, MaxHistory)'

SpecHook == Init /\ [][NextHook]_vars

\* the delivery carries no token, or one that differs from the shared secret
\* (the body's webhook_token counts when it is there, else the header)
TokenMissingOrWrong(cred) ==
  \/ cred.webhook_token = "" /\ cred.header # WEBHOOK_SECRET
  \/ cred.webhook_token \notin { "", WEBHOOK_SECRET }

\* C12: a logistics or refund webhook whose token is missing or differs from
\* the shared secret is answered 401, also when its return_number names no
\* return (the answer is not the 404 of the lookup), and the step changes no
\* return, no history and no flag.
C12_BadTokenRejected ==
  [][ /\ resp'.op = "logistics"
         => \A q \in HookLogisticsRequests :
              ( /\ TokenMissingOrWrong(q.cred)
                /\ LogisticsWebhook(WebhookToken(q.cred.webhook_token, q.cred.header),
                                    q.return_number, q.event, q.tracking_number,
                                    q.logistics_partner) )
              => /\ resp'.code = 401
                 /\ returns' = returns /\ history' = history /\ flags' = flags
      /\ resp'.op = "refund"
         => \A q \in HookRefundRequests :
              ( /\ TokenMissingOrWrong(q.cred)
                /\ RefundWebhook(WebhookToken(q.cred.webhook_token, q.cred.header),
                                 q.return_number, q.refund_status, q.refund_reference,
                                 q.refund_amount) )
              => /\ resp'.code = 401
                 /\ returns' = returns /\ history' = history /\ flags' = flags ]_vars

\* a delivery answered 401 while return 1 exists and is still as created
C12_Witness ==
  /\ resp.op \in { "logistics", "refund" } /\ resp.code = 401
  /\ 1 \in ReturnIds
  /\ returns[1].status = "pending" /\ returns[1].tracking_number = ""
  /\ Len(history[1]) = 1

(***************************************************************************)
(* The walk of test_apis.py (SpecRef): a return of an order below the      *)
(* threshold and the deliveries of the walk, sent in any order, so that    *)
(* the walk's own order is one of the behaviours.                          *)
(***************************************************************************)
MaxRefReturns == 1
MaxRefHistory == 6

RefCreateRequests ==
  [order_id : { 1 }, reason : { "size_issue" }, pincode : { ValidPincode }, key : { NoKey }]

RefLogisticsRequests ==
  [token : { WEBHOOK_SECRET }, return_number : 1 .. MaxRefReturns,
   event : { "out_for_pickup", "picked_up" },
   tracking_number : { "DEL987654321" }, logistics_partner : { "Delhivery" }]
  \cup [token : { WEBHOOK_SECRET }, return_number : 1 .. MaxRefReturns,
        event : { "warehouse_received" }, tracking_number : { "" }, logistics_partner : { "" }]

RefRefundRequests ==
  [token : { WEBHOOK_SECRET }, return_number : 1 .. MaxRefReturns,
   refund_status : { "initiated", "completed" },
   refund_reference : { "REF-TXN-998877" }, refund_amount : { 4999 }]

NextRef ==
  \/ \E q \in RefCreateRequests :
       /\ CreateReturn(q.order_id, q.reason, q.pincode, q.key)
       /\ Bounded(MaxRefReturns, MaxRefHistory)'
  \/ \E q \in RefLogisticsRequests :
       /\ LogisticsWebhook(q.token, q.return_number, q.event,
                           q.tracking_number, q.logistics_partner)
       /\ Bounded(MaxRefReturns, MaxRefHistory)'
  \/ \E q \in RefRefundRequests :
       /\ RefundWebhook(q.token, q.return_number, q.refund_status,
                        q.refund_reference, q.refund_amount)
       /\ Bounded(MaxRefReturns, MaxRefHistory)'

SpecRef == Init /\ [][NextRef]_vars

\* the statuses of the reference sequence, in its order
RefStatuses ==
  << "approved", "pickup_scheduled", "picked_up", "warehouse_received",
     "refund_initiated", "refund_completed" >>

\* return r has gone through the first k statuses of the reference sequence:
\* its status is the k-th, its history has exactly k entries with those
\* to_status values in that order, each from_status the entry before's to_status
OnReference(rets, hist, r, k) ==
  /\ rets[r].status = RefStatuses[k]
  /\ Len(hist[r]) = k
  /\ \A i \in 1 .. k :
       /\ hist[r][i].to_status = RefStatuses[i]
       /\ hist[r][i].from_status = IF i = 1 THEN "" ELSE RefStatuses[i - 1]

\* the k-th delivery of the reference sequence is applied to return r
RefDelivery(r, k) ==
  CASE k = 1 -> \E q \in RefLogisticsRequests :
                  /\ q.return_number = r /\ q.event = "out_for_pickup"
                  /\ LogisticsWebhook(q.token, r, q.event, q.tracking_number, q.logistics_partner)
    [] k = 2 -> \E q \in RefLogisticsRequests :
                  /\ q.return_number = r /\ q.event = "picked_up"
                  /\ LogisticsWebhook(q.token, r, q.event, q.tracking_number, q.logistics_partner)
    [] k = 3 -> \E q \in RefLogisticsRequests :
                  /\ q.return_number = r /\ q.event = "warehouse_received"
                  /\ LogisticsWebhook(q.token, r, q.event, q.tracking_number, q.logistics_partner)
    [] k = 4 -> \E q \in RefRefundRequests :
                  /\ q.return_number = r /\ q.refund_status = "initiated"
                  /\ RefundWebhook(q.token, r, q.refund_status, q.refund_reference, q.refund_amount)
    [] k = 5 -> \E q \in RefRefundRequests :
                  /\ q.return_number = r /\ q.refund_status = "completed"
                  /\ RefundWebhook(q.token, r, q.refund_status, q.refund_reference, q.refund_amount)

\* C13: the reference sequence.  A return created for an order below the
\* threshold is approved with a history of one entry ('' -> approved); each
\* delivery of the sequence (out_for_pickup, picked_up, warehouse_received,
\* refund initiated, refund completed) applied in its turn yields the next
\* status and one more entry, so that the whole sequence ends in
\* refund_completed with exactly 6 entries, their to_status in the order of
\* the sequence and every from_status the entry before's to_status.
C13_ReferenceSequence ==
  [][ /\ \A q \in RefCreateRequests :
           ( /\ Orders[q.order_id].total_amount < HIGH_VALUE_THRESHOLD
             /\ CreateReturn(q.order_id, q.reason, q.pincode, q.key)
             /\ resp'.code = 201 )
           => OnReference(returns', history', resp'.rn, 1)
      /\ \A r \in ReturnIds : \A k \in 1 .. 5 :
           (OnReference(returns, history, r, k) /\ RefDelivery(r, k))
           => OnReference(returns', history', r, k + 1) ]_vars

\* the sequence has been walked to its end
C13_Witness ==
  /\ 1 \in ReturnIds
  /\ OnReference(returns, history, 1, 6)
  /\ resp.op = "refund" /\ resp.code = 200

\* the delivery is authenticated
Authenticated(cred) == ~TokenMissingOrWrong(cred)

\* the targets of the status-changing events, as the transition table has them
StatusChangingEvents ==
  [ out_for_pickup |-> "pickup_scheduled", rescheduled |-> "pickup_scheduled",
    picked_up |-> "picked_up", warehouse_received |-> "warehouse_received",
    quality_check_started |-> "quality_check",
    initiated |-> "refund_initiated", completed |-> "refund_completed" ]

\* C14: an authenticated webhook with a known status-changing event, for a
\* return that exists, is accepted (200) and sets the return's status to the
\* event's target whatever the status was, cancelled, rejected and
\* refund_completed included.
C14_WebhookFromAnyStatus ==
  [][ /\ resp'.op = "logistics"
         => \A q \in HookLogisticsRequests :
              ( /\ Authenticated(q.cred)
                /\ q.return_number \in ReturnIds
                /\ q.event \in DOMAIN StatusChangingEvents
                /\ LogisticsWebhook(WebhookToken(q.cred.webhook_token, q.cred.header),
                                    q.return_number, q.event, q.tracking_number,
                                    q.logistics_partner) )
              => /\ resp'.code = 200
                 /\ returns'[q.return_number].status = StatusChangingEvents[q.event]
      /\ resp'.op = "refund"
         => \A q \in HookRefundRequests :
              ( /\ Authenticated(q.cred)
                /\ q.return_number \in ReturnIds
                /\ q.refund_status \in DOMAIN StatusChangingEvents
                /\ RefundWebhook(WebhookToken(q.cred.webhook_token, q.cred.header),
                                 q.return_number, q.refund_status, q.refund_reference,
                                 q.refund_amount) )
              => /\ resp'.code = 200
                 /\ returns'[q.return_number].status = StatusChangingEvents[q.refund_status] ]_vars

\* a cancelled return was refunded by a webhook and then, refunded, went on
\* to the quality check by another
C14_Witness ==
  /\ 1 \in ReturnIds
  /\ Len(history[1]) = 4
  /\ history[1][3] = HistoryRow("cancelled", "refund_completed", "webhook")
  /\ history[1][4] = HistoryRow("refund_completed", "quality_check", "webhook")
  /\ returns[1].status = "quality_check"

\* C15: the failure events (logistics failed_attempt, refund failed), sent
\* authenticated for a return that exists, are accepted (200), leave the
\* return's status as it was, and append to its history exactly one row, whose
\* from_status and to_status are both that status.
C15_FailureEventsKeepStatus ==
  [][ /\ resp'.op = "logistics"
         => \A q \in HookLogisticsRequests :
              ( /\ Authenticated(q.cred)
                /\ q.return_number \in ReturnIds
                /\ q.event = "failed_attempt"
                /\ LogisticsWebhook(WebhookToken(q.cred.webhook_token, q.cred.header),
                                    q.return_number, q.event, q.tracking_number,
                                    q.logistics_partner) )
              => /\ resp'.code = 200
                 /\ returns'[q.return_number].status = returns[q.return_number].status
                 /\ Len(history'[q.return_number]) = Len(history[q.return_number]) + 1
                 /\ SubSeq(history'[q.return_number], 1, Len(history[q.return_number]))
                      = history[q.return_number]
                 /\ Last(history'[q.return_number]).from_status = returns[q.return_number].status
                 /\ Last(history'[q.return_number]).to_status = returns[q.return_number].status
      /\ resp'.op = "refund"
         => \A q \in HookRefundRequests :
              ( /\ Authenticated(q.cred)
                /\ q.return_number \in ReturnIds
                /\ q.refund_status = "failed"
                /\ RefundWebhook(WebhookToken(q.cred.webhook_token, q.cred.header),
                                 q.return_number, q.refund_status, q.refund_reference,
                                 q.refund_amount) )
              => /\ resp'.code = 200
                 /\ returns'[q.return_number].status = returns[q.return_number].status
                 /\ Len(history'[q.return_number]) = Len(history[q.return_number]) + 1
                 /\ SubSeq(history'[q.return_number], 1, Len(history[q.return_number]))
                      = history[q.return_number]
                 /\ Last(history'[q.return_number]).from_status = returns[q.return_number].status
                 /\ Last(history'[q.return_number]).to_status = returns[q.return_number].status ]_vars

\* a failed pickup attempt of a cancelled return, then a failed refund of it
C15_Witness ==
  /\ 1 \in ReturnIds
  /\ returns[1].status = "cancelled"
  /\ Len(history[1]) = 4
  /\ history[1][3] = HistoryRow("cancelled", "cancelled", "webhook")
  /\ history[1][4] = HistoryRow("cancelled", "cancelled", "webhook")
  /\ resp = Response("refund", 200, 1, NoKey)

\* C16: a return's refund_amount is its order's total and its
\* refund_reference is empty from creation on, and a step changes one of the
\* two only if it is the refund webhook's completed event for that return:
\* refund events initiated and failed, logistics webhooks, cancellation and
\* the admin actions leave both as they were.
C16_RefundFieldsOnlyOnCompleted ==
  [][ /\ \A r \in DOMAIN returns' \ ReturnIds :
           /\ returns'[r].refund_amount = Orders[returns'[r].order].total_amount
           /\ returns'[r].refund_reference = ""
      /\ \A r \in ReturnIds :
           ( \/ returns'[r].refund_amount # returns[r].refund_amount
             \/ returns'[r].refund_reference # returns[r].refund_reference )
           => /\ resp' = Response("refund", 200, r, NoKey)
              /\ returns'[r].status = "refund_completed"
              /\ Last(history'[r]).to_status = "refund_completed" ]_vars

\* C17: an authenticated webhook that lacks a required field, names no
\* return, or carries an event or refund_status outside the vocabulary is
\* answered with an error (400 for the field and the vocabulary, 404 for the
\* return), and the step changes no return, no history and no flag.
C17_RejectedWebhookPersistsNothing ==
  [][ /\ resp'.op = "logistics"
         => \A q \in HookLogisticsRequests :
              ( /\ Authenticated(q.cred)
                /\ \/ q.return_number = 0
                   \/ q.event = "missing"
                   \/ q.return_number \notin ReturnIds
                   \/ q.event \notin LogisticsEvents
                /\ LogisticsWebhook(WebhookToken(q.cred.webhook_token, q.cred.header),
                                    q.return_number, q.event, q.tracking_number,
                                    q.logistics_partner) )
              => /\ resp'.code = IF q.return_number # 0 /\ q.event # "missing"
                                    /\ q.return_number \notin ReturnIds
                                 THEN 404 ELSE 400
                 /\ returns' = returns /\ history' = history /\ flags' = flags
      /\ resp'.op = "refund"
         => \A q \in HookRefundRequests :
              ( /\ Authenticated(q.cred)
                /\ \/ q.return_number = 0
                   \/ q.refund_status = "missing"
                   \/ q.return_number \notin ReturnIds
                   \/ q.refund_status \notin RefundStatuses
                /\ RefundWebhook(WebhookToken(q.cred.webhook_token, q.cred.header),
                                 q.return_number, q.refund_status, q.refund_reference,
                                 q.refund_amount) )
              => /\ resp'.code = IF q.return_number # 0 /\ q.refund_status # "missing"
                                    /\ q.return_number \notin ReturnIds
                                 THEN 404 ELSE 400
                 /\ returns' = returns /\ history' = history /\ flags' = flags ]_vars

\* an event outside the vocabulary was refused for return 1, which is still
\* as it was created
C17_Witness ==
  /\ resp = Response("logistics", 400, 1, NoKey)
  /\ 1 \in ReturnIds
  /\ returns[1].status = "pending" /\ returns[1].logistics_partner = ""
  /\ Len(history[1]) = 1

(***************************************************************************)
(* _check_eligibility on its own (SpecElig): an order of any status,       *)
(* category and delivery date, evaluated at an instant around one of the   *)
(* deadlines, with and without an active return on the order.              *)
(***************************************************************************)
\* minutes before and after a deadline at which the evaluation is made
EligSlack == 1

\* Order.STATUS_CHOICES and Order.CATEGORY_CHOICES
OrderStatuses == { "pending", "confirmed", "shipped", "delivered", "cancelled" }
OrderCategories == { "electronics", "fashion", "home", "books", "grocery", "beauty" }

\* the orders evaluated: delivered at T0, or with no delivery date
EligOrders ==
  [ status : OrderStatuses, delivered_at : { Null, Some(T0) },
    category : OrderCategories, total_amount : { 500 }, customer_id : { 1 } ]

\* the instants of the evaluation
EligInstants ==
  { T0 + Days(w) + e :
      w \in { DEFAULT_RETURN_WINDOW_DAYS, ELECTRONICS_RETURN_WINDOW_DAYS,
              FASHION_RETURN_WINDOW_DAYS },
      e \in (0 - EligSlack) .. EligSlack }
  \cup { T0 + Days(FASHION_RETURN_WINDOW_DAYS + 3) }

InitElig ==
  /\ returns = << >>
  /\ history = << >>
  /\ flags = << >>
  /\ resp = Response("none", 0, 0, NoKey)
  /\ procs = << >>
  /\ now \in EligInstants
  /\ evaluation \in [ fn : { "_check_eligibility" }, order : EligOrders,
                      active : BOOLEAN, done : { FALSE } ]

\* eligibility = _check_eligibility(order)
EvaluateEligibility ==
  /\ evaluation.fn = "_check_eligibility"
  /\ ~evaluation.done
  /\ evaluation' = [ fn |-> evaluation.fn, order |-> evaluation.order,
                     active |-> evaluation.active, done |-> TRUE,
                     result |-> EligibilityOf(evaluation.order, now, evaluation.active) ]
  /\ UNCHANGED << returns, history, flags, now, resp, procs >>

NextElig == EvaluateEligibility

SpecElig == InitElig /\ [][NextElig]_vars

\* _check_eligibility has returned
Evaluated == evaluation.fn = "_check_eligibility" /\ evaluation.done

\* C18: for every order whose status is not delivered the evaluation returns
\* eligible = false with the reason that cites the order's status, whatever
\* the delivery date, the category and the returns on the order; a delivered
\* order without a delivery date is not eligible either.
C18_UndeliveredNotEligible ==
  Evaluated =>
    /\ evaluation.order.status # "delivered"
         => /\ ~evaluation.result.eligible
            /\ evaluation.result.reason = "not_delivered"
            /\ evaluation.result.cites = evaluation.order.status
    /\ (evaluation.order.status = "delivered" /\ evaluation.order.delivered_at = Null)
         => ~evaluation.result.eligible

\* a shipped order with a delivery date, inside its window and with no active
\* return, was refused with its status cited
C18_Witness ==
  /\ Evaluated
  /\ evaluation.order.status = "shipped"
  /\ evaluation.order.delivered_at = Some(T0)
  /\ evaluation.order.category = "fashion"
  /\ now < T0 + Days(FASHION_RETURN_WINDOW_DAYS)
  /\ ~evaluation.active
  /\ ~evaluation.result.eligible /\ evaluation.result.cites = "shipped"

\* the return window in days, as the policy states it
StatedWindow(category) ==
  IF category = "electronics" THEN 10 ELSE IF category = "fashion" THEN 30 ELSE 7

\* C19: for a delivered order with a delivery date the evaluation uses a
\* window of 10 days for electronics, 30 for fashion and 7 for every other
\* category, and a deadline of delivered_at plus that window: these are the
\* window and the deadline it reports, and it is with them that it finds the
\* window expired or not.
C19_WindowByCategory ==
  (Evaluated /\ evaluation.order.status = "delivered"
             /\ evaluation.order.delivered_at # Null)
  => LET window == StatedWindow(evaluation.order.category)
         deadline == evaluation.order.delivered_at[1] + window * 24 * 60
     IN  /\ (evaluation.result.eligible \/ evaluation.result.reason = "expired")
              => /\ evaluation.result.return_window_days = window
                 /\ evaluation.result.deadline = Some(deadline)
         /\ evaluation.result.reason = "expired" <=> now > deadline

\* a fashion order, a minute before its 30 days are over, long after the 7
\* and the 10 days of the other windows, is eligible
C19_Witness ==
  /\ Evaluated
  /\ evaluation.order.status = "delivered"
  /\ evaluation.order.category = "fashion"
  /\ evaluation.order.delivered_at = Some(T0)
  /\ now = T0 + Days(30) - 1
  /\ evaluation.result.eligible
  /\ evaluation.result.return_window_days = 30

\* C20: for a delivered order with a delivery date the evaluation fails with
\* the expiry reason exactly when the current time is strictly later than the
\* deadline, and then reports the whole days overdue; at the deadline itself
\* and before it the window check passes, the order being eligible unless it
\* has an active return.
C20_ExpiredStrictlyAfterDeadline ==
  (Evaluated /\ evaluation.order.status = "delivered"
             /\ evaluation.order.delivered_at # Null)
  => /\ now > Deadline(evaluation.order)
          => /\ ~evaluation.result.eligible
             /\ evaluation.result.reason = "expired"
             /\ evaluation.result.days * Days(1) <= now - Deadline(evaluation.order)
             /\ now - Deadline(evaluation.order) < (evaluation.result.days + 1) * Days(1)
     /\ now <= Deadline(evaluation.order)
          => /\ evaluation.result.reason # "expired"
             /\ evaluation.result.eligible <=> ~evaluation.active

\* an electronics order evaluated at its deadline, to the minute, is eligible
C20_Witness ==
  /\ Evaluated
  /\ evaluation.order.status = "delivered"
  /\ evaluation.order.category = "electronics"
  /\ evaluation.order.delivered_at # Null
  /\ now = Deadline(evaluation.order)
  /\ ~evaluation.active
  /\ evaluation.result.eligible
  /\ evaluation.result.days = 0

(***************************************************************************)
(* _check_eligibility with the returns of the order (SpecActive): an order *)
(* inside its window, evaluated against a table of returns of every        *)
(* status, on this order and on another.                                   *)
(***************************************************************************)
\* rows of return_requests the evaluation may find
MaxOtherReturns == 2

\* the columns of return_requests the query reads
ReturnRows == [ order : { 1, 2 }, status : Statuses ]

\* the tables of the evaluation: up to MaxOtherReturns rows
ReturnTables ==
  UNION { [ 1 .. n -> ReturnRows ] : n \in 0 .. MaxOtherReturns }

InitActive ==
  /\ returns = << >>
  /\ history = << >>
  /\ flags = << >>
  /\ resp = Response("none", 0, 0, NoKey)
  /\ procs = << >>
  /\ now = T0
  /\ evaluation \in [ fn : { "_check_eligibility" }, order_id : { 1, 2 },
                      rows : ReturnTables, done : { FALSE } ]

\* eligibility = _check_eligibility(order), the table being evaluation.rows
EvaluateAgainstReturns ==
  /\ evaluation.fn = "_check_eligibility"
  /\ ~evaluation.done
  /\ evaluation' = [ fn |-> evaluation.fn, order_id |-> evaluation.order_id,
                     rows |-> evaluation.rows, done |-> TRUE,
                     result |-> EligibilityOf(Orders[evaluation.order_id], now,
                                  HasActiveReturn(evaluation.rows, evaluation.order_id)) ]
  /\ UNCHANGED << returns, history, flags, now, resp, procs >>

NextActive == EvaluateAgainstReturns

SpecActive == InitActive /\ [][NextActive]_vars

\* the statuses of the returns on the order evaluated
StatusesOnOrder ==
  { evaluation.rows[i].status :
      i \in { j \in DOMAIN evaluation.rows : evaluation.rows[j].order = evaluation.order_id } }

\* C21: for a delivered order inside its return window the evaluation fails
\* if and only if some return on that order is pending, approved,
\* pickup_scheduled, picked_up, warehouse_received, quality_check or
\* refund_initiated; returns that are rejected, refund_completed, cancelled or
\* closed, and returns on other orders, do not block.
C21_ActiveReturnBlocks ==
  (Evaluated /\ Orders[evaluation.order_id].status = "delivered"
             /\ Orders[evaluation.order_id].delivered_at # Null
             /\ now <= Deadline(Orders[evaluation.order_id]))
  => /\ ~evaluation.result.eligible
          <=> StatusesOnOrder \cap { "pending", "approved", "pickup_scheduled", "picked_up",
                                     "warehouse_received", "quality_check",
                                     "refund_initiated" } # {}
     /\ StatusesOnOrder \subseteq { "rejected", "refund_completed", "cancelled", "closed" }
          => evaluation.result.eligible
     /\ ~evaluation.result.eligible => evaluation.result.reason = "active_return"

\* the order has a cancelled return, the other order an approved one: the
\* order is eligible
C21_Witness ==
  /\ Evaluated
  /\ evaluation.order_id = 1
  /\ evaluation.rows = << [order |-> 1, status |-> "cancelled"],
                          [order |-> 2, status |-> "approved"] >>
  /\ evaluation.result.eligible

(***************************************************************************)
(* Rejected creations, the admin actions and the fraud flags (Spec).       *)
(***************************************************************************)
\* the creation request is one the handler refuses: its pincode is not six
\* digits, its order is unknown or not delivered, or (the key naming no
\* return) its order is not eligible
Refused(q) ==
  \/ Len(q.pincode) # 6
  \/ \E i \in DOMAIN q.pincode : q.pincode[i] \notin Digits
  \/ q.order_id \notin OrderIds
  \/ /\ q.order_id \in OrderIds
     /\ \/ Orders[q.order_id].status # "delivered"
        \/ /\ q.key = NoKey \/ HoldersOf(q.key) = {}
           /\ CheckEligibility(q.order_id, now, returns) # "eligible"

\* C22: a create_return request that is refused, for its pincode, for an
\* unknown or undelivered order, or for an order that is not eligible, is
\* answered 400 and persists nothing: no return, no history row and no fraud
\* flag is created and no existing return changes.
C22_RejectedCreatePersistsNothing ==
  [][ resp'.op = "create"
      => \/ /\ resp'.code = 400
            /\ returns' = returns /\ history' = history /\ flags' = flags
         \/ \A q \in CreateRequests :
              ~ ( /\ q.key = resp'.key
                  /\ Refused(q)
                  /\ CreateReturn(q.order_id, q.reason, q.pincode, q.key) ) ]_vars

\* a request with a pincode of five digits was refused while a return exists
C22_Witness ==
  /\ resp = Response("create", 400, 0, "k1")
  /\ Len(returns) = 1
  /\ returns[1].idempotency_key = NoKey
  /\ Len(history[1]) = 1
  /\ returns[1].status = "approved"

\* the bulk action with the given step on selection sel does what the
\* transition table says: each selected return in status from goes to status
\* to and gets exactly one history row from -> to by the admin; every other
\* return, selected or not, keeps its row and its history
BulkTransitionAsStated(sel, from, to) ==
  /\ DOMAIN returns' = ReturnIds
  /\ \A r \in ReturnIds :
       IF r \in sel /\ returns[r].status = from
       THEN /\ returns'[r] = [returns[r] EXCEPT !.status = to]
            /\ history'[r] = Append(history[r], HistoryRow(from, to, "admin"))
       ELSE /\ returns'[r] = returns[r]
            /\ history'[r] = history[r]

\* C23: admin bulk-approve (bulk-reject) on any selection changes only the
\* selected returns that are pending, to approved (rejected), appends exactly
\* one history row pending -> approved (pending -> rejected) by the admin for
\* each return it transitioned, and no row for a selected return it did not
\* transition.
C23_BulkApproveRejectAsStated ==
  [][ \A sel \in Selections :
        /\ ApproveReturns(sel) => BulkTransitionAsStated(sel, "pending", "approved")
        /\ RejectReturns(sel) => BulkTransitionAsStated(sel, "pending", "rejected") ]_vars

\* C24: admin mark-pickup on any selection changes only the selected returns
\* that are approved, to pickup_scheduled, and appends a history row
\* approved -> pickup_scheduled for each return it transitioned.
C24_MarkPickupAsStated ==
  [][ \A sel \in Selections :
        MarkAsPickupScheduled(sel)
        => /\ DOMAIN returns' = ReturnIds
           /\ \A r \in ReturnIds :
                IF r \in sel /\ returns[r].status = "approved"
                THEN /\ returns'[r] = [returns[r] EXCEPT !.status = "pickup_scheduled"]
                     /\ Len(history'[r]) = Len(history[r]) + 1
                     /\ Last(history'[r]).from_status = "approved"
                     /\ Last(history'[r]).to_status = "pickup_scheduled"
                ELSE /\ returns'[r] = returns[r]
                     /\ history'[r] = history[r] ]_vars

(***************************************************************************)
(* _check_fraud_flags as a function of the table, the order and the clock  *)
(* (SpecFraud): the return just created is the last row of a table holding *)
(* earlier returns of the customer inside the 30 days, exactly 30 days     *)
(* old and older, and returns of another customer.                         *)
(***************************************************************************)
\* earlier returns of the customer inside the 30 days
MaxPriorReturns == 11

\* minutes around the first hour after the delivery
QuickSlack == 1

\* the delivered orders a return can be created on
FraudOrderIds == { oid \in OrderIds : Orders[oid].status = "delivered" }

\* the instants of the check: T0 and the minutes around one hour after the
\* delivery of order 5
FraudInstants ==
  { T0 } \cup { Orders[5].delivered_at[1] + Hours(1) + d : d \in 0 .. QuickSlack }
         \cup { Orders[5].delivered_at[1] + Hours(1) - d : d \in 0 .. QuickSlack }

\* n rows of return_requests of the customer, created at the instant
RowsOf(n, customer, created) ==
  [ i \in 1 .. n |-> [customer_id |-> customer, created_at |-> created] ]

\* the table of the check: the columns the count reads, the last row being
\* the return just saved (auto_now_add: created at the instant of the check)
FraudTable(customer, t, recent, edge, old, other) ==
  RowsOf(recent, customer, t - Days(1))
    \o RowsOf(edge, customer, t - Days(30))
    \o RowsOf(old, customer, t - Days(30) - 1)
    \o RowsOf(other, customer + 1, t - Days(1))
    \o RowsOf(1, customer, t)

InitFraud ==
  /\ returns = << >>
  /\ history = << >>
  /\ flags = << >>
  /\ resp = Response("none", 0, 0, NoKey)
  /\ procs = << >>
  /\ now \in FraudInstants
  /\ \E oid \in FraudOrderIds, recent \in 0 .. MaxPriorReturns,
        edge \in 0 .. 1, old \in 0 .. 1, other \in 0 .. 1 :
       evaluation = [ fn |-> "_check_fraud_flags", order_id |-> oid,
                      rows |-> FraudTable(Orders[oid].customer_id, now,
                                          recent, edge, old, other),
                      done |-> FALSE ]

\* flags_created = _check_fraud_flags(return_request, order), the table being
\* evaluation.rows and return_request its last row
EvaluateFraudFlags ==
  /\ evaluation.fn = "_check_fraud_flags"
  /\ ~evaluation.done
  /\ evaluation' = [ fn |-> evaluation.fn, order_id |-> evaluation.order_id,
                     rows |-> evaluation.rows, done |-> TRUE,
                     result |-> FraudFlagTypes(evaluation.rows, Len(evaluation.rows),
                                               evaluation.order_id, now) ]
  /\ UNCHANGED << returns, history, flags, now, resp, procs >>

NextFraud == EvaluateFraudFlags

SpecFraud == InitFraud /\ [][NextFraud]_vars

FraudEvaluated == evaluation.fn = "_check_fraud_flags" /\ evaluation.done

\* the flag types the check raised
Raised == { evaluation.result[k] : k \in DOMAIN evaluation.result }

\* the returns of the customer of the order not older than 30 days, the one
\* just created included
InWindow ==
  { i \in DOMAIN evaluation.rows :
      /\ evaluation.rows[i].customer_id = Orders[evaluation.order_id].customer_id
      /\ now - evaluation.rows[i].created_at <= Days(30) }

\* C25: at creation a frequent_returns flag is raised exactly when the number
\* of returns by the same customer created within the trailing 30 days,
\* counting the just-created return, is strictly greater than
\* MAX_RETURNS_PER_MONTH: with MAX_RETURNS_PER_MONTH returns in the window
\* there is no flag, the next one is the first to be flagged.
C25_FrequentAboveThreshold ==
  FraudEvaluated
  => /\ "frequent_returns" \in Raised <=> Cardinality(InWindow) > MAX_RETURNS_PER_MONTH
     /\ Cardinality(InWindow) = MAX_RETURNS_PER_MONTH => "frequent_returns" \notin Raised
     /\ Cardinality(InWindow) = MAX_RETURNS_PER_MONTH + 1 => "frequent_returns" \in Raised

\* the customer's MAX_RETURNS_PER_MONTH + 1 returns of the window, one of them
\* exactly 30 days old, next to an older one and another customer's: flagged
C25_Witness ==
  /\ FraudEvaluated
  /\ Len(evaluation.rows) = MAX_RETURNS_PER_MONTH + 3
  /\ Cardinality(InWindow) = MAX_RETURNS_PER_MONTH + 1
  /\ \E i \in InWindow : evaluation.rows[i].created_at = now - Days(30)
  /\ "frequent_returns" \in Raised

\* C26: at creation a quick_return flag is raised exactly when the order has
\* a delivery timestamp and the time elapsed since the delivery is strictly
\* less than one hour.
C26_QuickBelowOneHour ==
  FraudEvaluated
  => ( "quick_return" \in Raised
       <=> /\ Orders[evaluation.order_id].delivered_at # Null
           /\ now - Orders[evaluation.order_id].delivered_at[1] < 60 )

\* exactly one hour after the delivery of order 5: no quick_return flag
C26_Witness ==
  /\ FraudEvaluated
  /\ evaluation.order_id = 5
  /\ now = Orders[5].delivered_at[1] + 60
  /\ "quick_return" \notin Raised

(***************************************************************************)
(* The fraud flags and the first history row over the lifecycle (Spec).    *)
(***************************************************************************)
\* the flag types of the rows of fraud_flags of return r
FlagTypesOf(r) == { flags[r][k].flag_type : k \in DOMAIN flags[r] }

\* C27: fraud rules run once per return, at creation only: in every reachable
\* state each return has at most one FraudFlag per flag type and every flag
\* has review status open, and no later operation (cancel, webhook, admin
\* transition, repeated creation request) creates a FraudFlag for an existing
\* return.
C27_FlagsOnlyAtCreation ==
  /\ [] ( \A r \in ReturnIds :
            /\ Cardinality(FlagTypesOf(r)) = Len(flags[r])
            /\ \A k \in DOMAIN flags[r] : flags[r][k].status = "open" )
  /\ [][ \A r \in ReturnIds : flags'[r] = flags[r] ]_vars

\* the flagged return has gone through later operations, the last request
\* being a repeated creation answered with it, and still has its one flag
C27_Witness ==
  /\ resp = Response("create", 200, 1, "k1")
  /\ Len(flags[1]) = 1 /\ flags[1][1].flag_type = "high_value"
  /\ flags[1][1].status = "open"
  /\ Len(history[1]) >= 3

\* C28: after a creation completes, and after any later sequence of
\* operations handled one at a time, a return's is_flagged is true if and
\* only if at least one FraudFlag exists for that return.
C28_FlaggedIffSomeFlag ==
  \A r \in ReturnIds : returns[r].is_flagged <=> flags[r] # << >>

\* a flagged return and an unflagged one, both past their creation
C28_Witness ==
  \E r, s \in ReturnIds :
    /\ returns[r].is_flagged /\ flags[r] # << >> /\ Len(history[r]) >= 2
    /\ ~returns[s].is_flagged /\ flags[s] = << >> /\ Len(history[s]) >= 2

\* C29: a successful creation leaves the new return with exactly one history
\* entry, whose from_status is empty, whose to_status is the return's initial
\* status and whose actor is system.
C29_CreationWritesOneEntry ==
  [][ (resp'.op = "create" /\ resp'.code = 201 /\ Len(returns') = Len(returns) + 1)
      => /\ resp'.rn = Len(returns')
         /\ DOMAIN history' = DOMAIN returns'
         /\ Len(history'[resp'.rn]) = 1
         /\ history'[resp'.rn][1].from_status = ""
         /\ history'[resp'.rn][1].to_status = returns'[resp'.rn].status
         /\ history'[resp'.rn][1].changed_by = "system" ]_vars

\* the second return was just created as pending with its one entry, next to
\* a first return with a longer history
C29_Witness ==
  /\ resp = Response("create", 201, 2, NoKey)
  /\ Len(returns) = 2 /\ returns[2].status = "pending"
  /\ history[2] = << HistoryRow("", "pending", "system") >>
  /\ Len(history[1]) >= 2

(***************************************************************************)
(* views.list_returns as a function of the table and the query parameters  *)
(* (SpecList).                                                             *)
(***************************************************************************)
\* rows of return_requests of customer 1 that are approved and not flagged
MaxListed == 21

\* "page_size = 20"
page_size == 20

\* n rows of return_requests with the columns the filters read
ListRowsOf(n, customer, status, flagged) ==
  [ i \in 1 .. n |-> [customer_id |-> customer, status |-> status,
                      is_flagged |-> flagged] ]

\* the table of the listing, in the order of creation
ListTable(plain, flagged, other) ==
  ListRowsOf(plain, 1, "approved", FALSE)
    \o ListRowsOf(flagged, 1, "pending", TRUE)
    \o ListRowsOf(other, 2, "approved", FALSE)

\* the query parameters: an absent one is Null
ListQueries ==
  [ customer_id : { Null, Some(1) }, status : { Null, Some("approved") },
    is_flagged : { Null, Some("true"), Some("false") }, page : { Null, Some(2) } ]

\* the three filters of the queryset
MatchesFilters(row, query) ==
  /\ query.customer_id # Null => row.customer_id = query.customer_id[1]
  /\ query.status # Null => row.status = query.status[1]
  /\ (query.is_flagged # Null /\ query.is_flagged[1] = "true") => row.is_flagged

\* the filtered queryset in the model's ordering ('-created_at': the newest
\* row first), as the sequence of the rows' ids
RECURSIVE FilteredNewestFirst(_, _, _)
FilteredNewestFirst(rets, query, n) ==
  IF n = 0 THEN << >>
  ELSE (IF MatchesFilters(rets[n], query) THEN << n >> ELSE << >>)
         \o FilteredNewestFirst(rets, query, n - 1)

\* (mutant) the slice takes the row at the end index too
SliceThroughEnd(seq, start, end) ==
  IF start >= Len(seq) THEN << >>
  ELSE SubSeq(seq, start + 1, IF end + 1 < Len(seq) THEN end + 1 ELSE Len(seq))

\* queryset[start:end]
Slice(seq, start, end) ==
  IF start >= Len(seq) THEN << >>
  ELSE SubSeq(seq, start + 1, IF end < Len(seq) THEN end ELSE Len(seq))

\* the body of the response of list_returns
ListReturns(rets, query) ==
  LET queryset == FilteredNewestFirst(rets, query, Len(rets))
      page == IF query.page = Null THEN 1 ELSE query.page[1]
      start == (page - 1) * page_size
      end == start + page_size
  IN  [ count |-> Len(queryset), page |-> page, page_size |-> page_size,
        results |-> Slice(queryset, start, end) ]

InitList ==
  /\ returns = << >>
  /\ history = << >>
  /\ flags = << >>
  /\ resp = Response("none", 0, 0, NoKey)
  /\ procs = << >>
  /\ now = T0
  /\ \E plain \in 0 .. MaxListed, flagged \in 0 .. 2, other \in 0 .. 1 :
       evaluation \in [ fn : { "list_returns" }, query : ListQueries,
                        rows : { ListTable(plain, flagged, other) },
                        done : { FALSE } ]

\* Response({...}) of list_returns, the table being evaluation.rows
EvaluateListReturns ==
  /\ evaluation.fn = "list_returns"
  /\ ~evaluation.done
  /\ evaluation' = [ fn |-> evaluation.fn, query |-> evaluation.query,
                     rows |-> evaluation.rows, done |-> TRUE,
                     result |-> ListReturns(evaluation.rows, evaluation.query) ]
  /\ UNCHANGED << returns, history, flags, now, resp, procs >>

NextList == EvaluateListReturns

SpecList == InitList /\ [][NextList]_vars

Listed == evaluation.fn = "list_returns" /\ evaluation.done

\* the rows of the table that match the filters of the query
Matching ==
  { i \in DOMAIN evaluation.rows :
      /\ evaluation.query.customer_id = Some(1) => evaluation.rows[i].customer_id = 1
      /\ evaluation.query.status = Some("approved") => evaluation.rows[i].status = "approved"
      /\ evaluation.query.is_flagged = Some("true") => evaluation.rows[i].is_flagged }

CancelReceive(rid) ==
  /\ CanAccept
  /\ UNCHANGED << returns, history, flags, now, evaluation >>
  /\ IF rid \notin ReturnIds
     THEN resp' = Response("cancel", 404, 0, NoKey) /\ UNCHANGED procs
     ELSE IF ~CanCancel(returns[rid].status)
     THEN resp' = Response("cancel", 400, rid, NoKey) /\ UNCHANGED procs
     ELSE /\ procs' = Append(procs,
                [op |-> "cancel", pc |-> "save", req |-> [return_id |-> rid], rn |-> rid,
                 old_status |-> returns[rid].status,
                 obj |-> [returns[rid] EXCEPT !.status = "cancelled"]])
          /\ UNCHANGED resp

\* return_request.save(): every column of the in-memory return is written
CancelSave(p) ==
  /\ p \in DOMAIN procs
  /\ procs[p].op = "cancel" /\ procs[p].pc = "save"
  /\ returns' = [returns EXCEPT ![procs[p].rn] = procs[p].obj]
  /\ Goto(p, "history")
  /\ UNCHANGED << history, flags, now, evaluation, resp >>

\* ReturnStatusHistory.objects.create(from_status=old_status, ...), then the 200
CancelRecordHistory(p) ==
  /\ p \in DOMAIN procs
  /\ procs[p].op = "cancel" /\ procs[p].pc = "history"
  /\ history' = [history EXCEPT ![procs[p].rn] =
                  Append(@, HistoryRow(procs[p].old_status, "cancelled", "customer"))]
  /\ Finish(p, Response("cancel", 200, procs[p].rn, NoKey))
  /\ UNCHANGED << returns, flags, now, evaluation >>

\* the requests that race: creations without a key on two orders, and a
\* pickup, a completed refund and a cancellation on return 1
RaceCreateRequests ==
  [order_id : { 1, 2 }, reason : { "defective" }, pincode : { ValidPincode }, key : { NoKey }]

RaceLogisticsRequests ==
  [token : { WEBHOOK_SECRET }, return_number : { 1 }, event : { "picked_up" },
   tracking_number : { "TRK1" }, logistics_partner : { "Delhivery" }]

RaceRefundRequests ==
  [token : { WEBHOOK_SECRET }, return_number : { 1 }, refund_status : { "completed" },
   refund_reference : { "RF1" }, refund_amount : { 0 }]

RaceCancelRequests == { 1, MaxReturns + 1 }

NextRace ==
  \/ \E q \in RaceCreateRequests : CreateReceive(q)
  \/ \E p \in ProcIds : CreateIdempotencyCheck(p)
  \/ \E p \in ProcIds : CreateEligibilityCheck(p)
  \/ \E p \in ProcIds : CreateSave(p)
  \/ \E p \in ProcIds : CreateRecordHistory(p)
  \/ \E p \in ProcIds : CreateCheckFraud(p)
  \/ \E q \in RaceLogisticsRequests : LogisticsReceive(q)
  \/ \E p \in ProcIds : LogisticsSave(p)
  \/ \E p \in ProcIds : LogisticsRecordHistory(p)
  \/ \E q \in RaceRefundRequests : RefundReceive(q)
  \/ \E p \in ProcIds : RefundSave(p)
  \/ \E p \in ProcIds : RefundRecordHistory(p)
  \/ \E rid \in RaceCancelRequests : CancelReceive(rid)
  \/ \E p \in ProcIds : CancelSave(p)
  \/ \E p \in ProcIds : CancelRecordHistory(p)

SpecRace == Init /\ [][NextRace]_vars

\* C31: when cancel_return runs concurrently with a webhook on the same
\* return, the cancellation never takes effect on a status outside the
\* cancellable set: the write of the cancellation never replaces a stored
\* status other than pending, approved or pickup_scheduled by cancelled.
C31_CancelOnlyOverCancellable ==
  [][ \A p \in ProcIds :
        CancelSave(p)
        => returns[procs[p].rn].status \in { "pending", "approved", "pickup_scheduled" } ]_vars

\* C32: mutations of a return row are applied with no lost update: the write
\* of a handler leaves every field its request does not assign (for a pickup
\* event the refund fields and is_flagged; for a refund event the tracking
\* number, the partner, the pickup dates and is_flagged; for a cancellation
\* all of them) at the value stored, never at the value it read earlier.
C32_NoLostUpdate ==
  [][ \A p \in ProcIds :
        /\ LogisticsSave(p)
           => LET r == procs[p].rn
              IN  /\ returns'[r].is_flagged = returns[r].is_flagged
                  /\ returns'[r].refund_reference = returns[r].refund_reference
                  /\ returns'[r].refund_amount = returns[r].refund_amount
        /\ RefundSave(p)
           => LET r == procs[p].rn
              IN  /\ returns'[r].is_flagged = returns[r].is_flagged
                  /\ returns'[r].tracking_number = returns[r].tracking_number
                  /\ returns'[r].logistics_partner = returns[r].logistics_partner
                  /\ returns'[r].pickup_scheduled_date = returns[r].pickup_scheduled_date
                  /\ returns'[r].pickup_completed_date = returns[r].pickup_completed_date
        /\ CancelSave(p)
           => LET r == procs[p].rn
              IN  /\ returns'[r].is_flagged = returns[r].is_flagged
                  /\ returns'[r].tracking_number = returns[r].tracking_number
                  /\ returns'[r].logistics_partner = returns[r].logistics_partner
                  /\ returns'[r].pickup_scheduled_date = returns[r].pickup_scheduled_date
                  /\ returns'[r].pickup_completed_date = returns[r].pickup_completed_date
                  /\ returns'[r].refund_reference = returns[r].refund_reference
                  /\ returns'[r].refund_amount = returns[r].refund_amount ]_vars

\* C33: two create_return requests for the same order that run concurrently
\* without a shared idempotency key cannot both create a return: no creation
\* inserts a return on an order that has an active return.
C33_CreateRaceSafe ==
  [][ \A p \in ProcIds :
        (CreateSave(p) /\ Len(returns') = Len(returns) + 1)
        => ~HasActiveReturn(returns, procs[p].req.order_id) ]_vars

(***************************************************************************)
(* Redelivery, the idempotency lookup and the frame of the transitions.    *)
(***************************************************************************)
\* the state right after the accepted logistics delivery q: its answer, its
\* history row and the fields of its payload are in place
AfterLogistics(q) ==
  LET r == q.return_number
  IN  /\ r \in ReturnIds
      /\ resp = Response("logistics", 200, r, NoKey)
      /\ Last(history[r]).changed_by = "webhook"
      /\ Last(history[r]).to_status = returns[r].status
      /\ returns[r].status = LogisticsTarget(q.event, Last(history[r]).from_status)
      /\ q.tracking_number # "" => returns[r].tracking_number = q.tracking_number
      /\ q.logistics_partner # "" => returns[r].logistics_partner = q.logistics_partner

\* the state right after the accepted refund delivery q
AfterRefund(q) ==
  LET r == q.return_number
  IN  /\ r \in ReturnIds
      /\ resp = Response("refund", 200, r, NoKey)
      /\ Last(history[r]).changed_by = "webhook"
      /\ Last(history[r]).to_status = returns[r].status
      /\ returns[r].status = RefundTarget(q.refund_status, Last(history[r]).from_status)
      /\ q.refund_reference # "" => returns[r].refund_reference = q.refund_reference
      /\ q.refund_amount # 0 => returns[r].refund_amount = q.refund_amount

\* the fields of the row a redelivery is to leave alone
SameOutcome(a, b) ==
  /\ a.status = b.status
  /\ a.refund_reference = b.refund_reference
  /\ a.refund_amount = b.refund_amount
  /\ a.tracking_number = b.tracking_number
  /\ a.logistics_partner = b.logistics_partner

\* C34: webhook redelivery is idempotent on the return row: every accepted
\* logistics or refund delivery leaves the state described by AfterLogistics
\* or AfterRefund, and the same delivery made again in that state is accepted
\* and leaves the status, the refund fields, the tracking number and the
\* partner as they are, the history gaining exactly one row.
C34_RedeliveryIdempotent ==
  [][ /\ resp'.op = "logistics" /\ resp'.code = 200
         => \A q \in HookLogisticsRequests :
              LogisticsWebhook(WebhookToken(q.cred.webhook_token, q.cred.header),
                               q.return_number, q.event, q.tracking_number,
                               q.logistics_partner)
              => /\ AfterLogistics(q)'
                 /\ AfterLogistics(q)
                      => /\ SameOutcome(returns'[q.return_number], returns[q.return_number])
                         /\ Len(history'[q.return_number])
                              = Len(history[q.return_number]) + 1
      /\ resp'.op = "refund" /\ resp'.code = 200
         => \A q \in HookRefundRequests :
              RefundWebhook(WebhookToken(q.cred.webhook_token, q.cred.header),
                            q.return_number, q.refund_status, q.refund_reference,
                            q.refund_amount)
              => /\ AfterRefund(q)'
                 /\ AfterRefund(q)
                      => /\ SameOutcome(returns'[q.return_number], returns[q.return_number])
                         /\ Len(history'[q.return_number])
                              = Len(history[q.return_number]) + 1 ]_vars

\* the completed refund with its reference and amount was delivered twice in
\* succession: two rows to refund_completed, the second from refund_completed
C34_Witness ==
  /\ resp = Response("refund", 200, 1, NoKey)
  /\ Len(history[1]) = 3
  /\ history[1][2].to_status = "refund_completed"
  /\ history[1][3] = HistoryRow("refund_completed", "refund_completed", "webhook")
  /\ returns[1].refund_reference = "REF1" /\ returns[1].refund_amount = 450

C36_IdentityFieldsFixed ==
  [][ \A r \in ReturnIds :
        /\ r \in DOMAIN returns'
        /\ returns'[r].order = returns[r].order
        /\ returns'[r].customer_id = returns[r].customer_id
        /\ returns'[r].reason = returns[r].reason
        /\ returns'[r].idempotency_key = returns[r].idempotency_key
        /\ returns'[r].is_high_value = returns[r].is_high_value ]_vars

\* the keyed high-value return of order 2 after an approval by the admin, a
\* pickup event and its cancellation
C36_Witness ==
  /\ Len(returns) = 1
  /\ returns[1].order = 2 /\ returns[1].idempotency_key = "k1"
  /\ returns[1].is_high_value /\ returns[1].reason = "defective"
  /\ returns[1].status = "cancelled"
  /\ Len(history[1]) = 4
  /\ history[1][2].changed_by = "admin"
  /\ history[1][3].changed_by = "webhook"
  /\ history[1][4].changed_by = "customer"

\* C37: the status history is append-only: no operation modifies or removes
\* an existing history row, so each return's history only grows and the
\* earlier history is a prefix of the later one.
C37_HistoryAppendOnly ==
  [][ \A r \in ReturnIds :
        /\ r \in DOMAIN history'
        /\ Len(history'[r]) >= Len(history[r])
        /\ \A k \in DOMAIN history[r] : history'[r][k] = history[r][k] ]_vars

\* a return whose history has grown by a webhook's row and then by the
\* admin's, next to a return that has its creation row only
C37_Witness ==
  /\ Len(returns) = 2
  /\ Len(history[1]) = 3
  /\ history[1][1].changed_by = "system"
  /\ history[1][2].changed_by = "webhook"
  /\ history[1][3].changed_by = "admin"
  /\ Len(history[2]) = 1

(***************************************************************************)
(* Creations while the clock moves past a deadline (SpecClock).  The       *)
(* handler reads the clock more than once: _check_eligibility calls        *)
(* timezone.now() for the window, and created_at is stamped by the INSERT  *)
(* that follows, so the clock may move between the two.                    *)
(***************************************************************************)
\* minutes around the deadline of order 2 the clock stops at
ClockSlack == 1

\* the instants of the clock: T0 and the minutes around the deadline of
\* order 2
ClockInstants ==
  { T0 } \cup { Deadline(Orders[2]) + d : d \in 0 .. ClockSlack }
         \cup { Deadline(Orders[2]) - d : d \in 0 .. ClockSlack }

\* timezone.now() has moved on between two queries
AdvanceClock ==
  /\ \E t \in ClockInstants : t > now /\ now' = t
  /\ UNCHANGED << returns, history, flags, resp, procs, evaluation >>

\* creations on the electronics order, the shipped order, the order whose
\* window is over, the order without a delivery timestamp and an unknown one
ClockCreateRequests ==
  [order_id : { 2, 3, 4, 6, 99 }, reason : { "defective" },
   pincode : { ValidPincode }, key : { NoKey }]

NextClock ==
  \/ \E q \in ClockCreateRequests : CreateReceive(q)
  \/ \E p \in ProcIds : CreateIdempotencyCheck(p)
  \/ \E p \in ProcIds : CreateEligibilityCheck(p)
  \/ \E p \in ProcIds : CreateSave(p)
  \/ \E p \in ProcIds : CreateRecordHistory(p)
  \/ \E p \in ProcIds : CreateCheckFraud(p)
  \/ AdvanceClock

SpecClock == Init /\ [][NextClock]_vars

\* C38 (as claimed): every return that exists references an order whose
\* status is delivered and whose delivery timestamp is set, and was created
\* at a time no later than that order's return deadline (the delivery plus 10
\* days for electronics, 30 for fashion, 7 otherwise).
C38_ReturnsOnDeliveredOrdersInWindow ==
  \A r \in ReturnIds :
    LET order == Orders[returns[r].order]
    IN  /\ order.status = "delivered"
        /\ order.delivered_at # Null
        /\ returns[r].created_at
             <= order.delivered_at[1] + StatedWindow(order.category) * 24 * 60

\* C38 (amended): every return that exists references an order whose status
\* is delivered and whose delivery timestamp is set, and the window check of
\* its creation request passed at a time no later than that order's return
\* deadline: a creation request goes on to its insert only from a check made
\* on a delivered order with a delivery timestamp, at or before the deadline.
C38_ReturnsCheckedInWindow ==
  /\ [] ( \A r \in ReturnIds :
            /\ Orders[returns[r].order].status = "delivered"
            /\ Orders[returns[r].order].delivered_at # Null )
  /\ [][ \A p \in ProcIds :
           ( /\ CreateEligibilityCheck(p)
             /\ Len(procs') = Len(procs)
             /\ procs'[p].pc = "save" )
           => LET order == Orders[procs[p].req.order_id]
              IN  /\ order.status = "delivered"
                  /\ order.delivered_at # Null
                  /\ now <= order.delivered_at[1] + StatedWindow(order.category) * 24 * 60 ]_vars

\* a return on order 2 whose request passed the check at the deadline or
\* before and whose insert came after the deadline
C38_Witness ==
  /\ Len(returns) = 1
  /\ returns[1].order = 2
  /\ returns[1].created_at > Orders[2].delivered_at[1] + 10 * 24 * 60
  /\ Len(history[1]) = 1
  /\ procs = << >>

\* C39: no operation moves a return into pending or closed: no return is
\* ever closed, and a return that is not pending is not pending after any
\* step (only its creation can make a return pending).
C39_NeverBackToPendingNorClosed ==
  /\ [] ( \A r \in ReturnIds : returns[r].status # "closed" )
  /\ [][ \A r \in ReturnIds :
           returns'[r].status = "pending" => returns[r].status = "pending" ]_vars

\* the return stayed pending through a failed pickup attempt, left pending
\* by the admin's approval and has received another failed attempt since
C39_Witness ==
  /\ Len(returns) = 1
  /\ returns[1].status = "approved"
  /\ history[1] = << HistoryRow("", "pending", "system"),
                     HistoryRow("pending", "pending", "webhook"),
                     HistoryRow("pending", "approved", "admin"),
                     HistoryRow("approved", "approved", "webhook") >>

\* C40: in every reachable state a return whose status is pending has
\* is_high_value true, and so has a return whose status is rejected: a return
\* becomes rejected only by the admin's bulk-reject, from pending.
C40_PendingAndRejectedAreHighValue ==
  /\ [] ( \A r \in ReturnIds :
            returns[r].status \in { "pending", "rejected" } => returns[r].is_high_value )
  /\ [][ \A r \in ReturnIds :
           (returns'[r].status = "rejected" /\ returns[r].status # "rejected")
           => returns[r].status = "pending" /\ resp'.op = "reject" ]_vars

\* the admin has just rejected a selection: the high-value return is rejected,
\* the other return, not high-value, is approved as before
C40_Witness ==
  /\ resp.op = "reject"
  /\ Len(returns) = 2
  /\ returns[1].status = "rejected" /\ returns[1].is_high_value
  /\ returns[2].status = "approved" /\ ~returns[2].is_high_value
  /\ Len(history[2]) = 1

====
